---------------------------- MODULE Spec2Model ----------------------------
(***************************************************************************)
(* Model of the SAST pattern scanner, the fix routes and the enrichment    *)
(* bridge of vscode-sast.                                                  *)
(*                                                                         *)
(* Texts and lines are TLA+ strings; offsets are 0-based UTF-16 offsets as *)
(* in JavaScript.  Regular expressions are data (alternatives of quantified*)
(* character classes) interpreted by a backtracking matcher that follows   *)
(* the ECMAScript matching order (leftmost start, alternatives in order,   *)
(* greedy quantifiers first).                                              *)
(***************************************************************************)
EXTENDS Integers, Sequences, FiniteSets, TLC


-----------------------------------------------------------------------------
(* Strings *)

CharAt(s, i) == SubSeq(s, i + 1, i + 1)

Slice(s, from, to) == SubSeq(s, from + 1, to)

Min2(a, b) == IF a < b THEN a ELSE b

Max2(a, b) == IF a > b THEN a ELSE b

LowerLetters == "abcdefghijklmnopqrstuvwxyz"

UpperLetters == "ABCDEFGHIJKLMNOPQRSTUVWXYZ"

Digits == "0123456789"

CharsOf(s) == {CharAt(s, i) : i \in 0..(Len(s) - 1)}

\* the characters that equal c when case is ignored (flag i)
CaseFold(c) ==
    {c} \cup {CharAt(UpperLetters, i) : i \in {j \in 0..25 : CharAt(LowerLetters, j) = c}}
        \cup {CharAt(LowerLetters, i) : i \in {j \in 0..25 : CharAt(UpperLetters, j) = c}}

\* String.prototype.includes
Includes(s, sub) ==
    \E i \in 0..(Len(s) - Len(sub)) : Slice(s, i, i + Len(sub)) = sub

\* the least element of a non-empty set of numbers
Least(ns) == CHOOSE n \in ns : \A m \in ns : n <= m

\* String.prototype.split('\n'): the pieces between the line feeds, always
\* at least one
Split(s) ==
    LET Pieces(feeds) ==
            [k \in 1..(Cardinality(feeds) + 1) |->
                Slice(s,
                      IF k = 1 THEN 0
                      ELSE 1 + Least({i \in feeds : Cardinality({j \in feeds : j < i}) = k - 2}),
                      IF k = Cardinality(feeds) + 1 THEN Len(s)
                      ELSE Least({i \in feeds : Cardinality({j \in feeds : j < i}) = k - 1}))]
    IN  Pieces({i \in 0..(Len(s) - 1) : CharAt(s, i) = "\n"})

\* Array.prototype.join('\n')
RECURSIVE Join(_)
Join(ls) ==
    IF Len(ls) = 0 THEN ""
    ELSE IF Len(ls) = 1 THEN ls[1]
    ELSE ls[1] \o "\n" \o Join(Tail(ls))

-----------------------------------------------------------------------------
(* Regular expressions *)

WS == {" ", "\t", "\n", "\r"}

\* the grave accent, which a TLA+ string cannot hold, is written ~ in every
\* text and pattern of the model
Grave == "~"

\* the class ['"`]
Quote == {"'", "\"", Grave}

WordChars == CharsOf(LowerLetters) \cup CharsOf(UpperLetters) \cup CharsOf(Digits) \cup {"_"}

\* one quantified character class; q is "1", "?", "*", "+" or the lazy "*?"
Item(cs, neg, q) == [cs |-> cs, neg |-> neg, q |-> q]

One(cs) == <<Item(cs, FALSE, "1")>>

Star(cs) == <<Item(cs, FALSE, "*")>>

Plus(cs) == <<Item(cs, FALSE, "+")>>

Opt(cs) == <<Item(cs, FALSE, "?")>>

NotStar(cs) == <<Item(cs, TRUE, "*")>>

NotPlus(cs) == <<Item(cs, TRUE, "+")>>

\* . matches everything but line terminators
AnyStar == <<Item({"\n", "\r"}, TRUE, "*")>>

AnyLazy == <<Item({"\n", "\r"}, TRUE, "*?")>>

\* a literal, case sensitive
Lit(str) == [i \in 1..Len(str) |-> Item({CharAt(str, i - 1)}, FALSE, "1")]

\* a literal under flag i
LitI(str) == [i \in 1..Len(str) |-> Item(CaseFold(CharAt(str, i - 1)), FALSE, "1")]

\* an alternative: its items and the item spans of its capture groups
Alt(items, groups) == [items |-> items, groups |-> groups]

Fail == <<-1>>

ItemAccepts(it, c) == (c \in it.cs) # it.neg

\* how many consecutive characters from offset pos the class accepts
RunLen(it, s, pos) ==
    Least({n \in 0..(Len(s) - pos) :
              pos + n = Len(s) \/ ~ItemAccepts(it, CharAt(s, pos + n))})

RECURSIVE MatchSeq(_, _, _, _), TryCount(_, _, _, _, _, _, _)
\* the end offsets of items k.. when they match at pos, else Fail
MatchSeq(items, k, s, pos) ==
    IF k > Len(items) THEN <<>>
    ELSE LET it == items[k]
             Then(r) == IF r = Fail THEN Fail ELSE <<pos + 1>> \o r
             Counts(run) ==
                 LET lo == IF it.q = "+" THEN 1 ELSE 0
                     hi == IF it.q = "?" THEN Min2(run, 1) ELSE run
                 IN  IF hi < lo THEN Fail
                     ELSE IF it.q = "*?" THEN TryCount(items, k, s, pos, lo, hi, 1)
                     ELSE TryCount(items, k, s, pos, hi, lo, -1)
         IN  IF it.q = "1"
             THEN IF pos < Len(s) /\ ItemAccepts(it, CharAt(s, pos))
                  THEN Then(MatchSeq(items, k + 1, s, pos + 1))
                  ELSE Fail
             ELSE Counts(RunLen(it, s, pos))

TryCount(items, k, s, pos, n, last, step) ==
    LET Then(r) ==
            IF r # Fail THEN <<pos + n>> \o r
            ELSE IF n = last THEN Fail
            ELSE TryCount(items, k, s, pos, n + step, last, step)
    IN  Then(MatchSeq(items, k + 1, s, pos + n))

NoMatch == [found |-> FALSE]

\* the match of the first alternative, from alternative a on, that matches
\* at offset start
RECURSIVE ExecAlt(_, _, _, _)
ExecAlt(regex, s, start, a) ==
    IF a > Len(regex) THEN NoMatch
    ELSE LET Matched(ends) ==
                 IF ends = Fail THEN ExecAlt(regex, s, start, a + 1)
                 ELSE [found |-> TRUE, start |-> start, alt |-> a, ends |-> ends,
                       end |-> IF Len(ends) = 0 THEN start ELSE ends[Len(ends)]]
         IN  Matched(MatchSeq(regex[a].items, 1, s, start))

ExecAt(regex, s, start) == ExecAlt(regex, s, start, 1)

\* the leftmost match at or after offset from
Exec(regex, s, from) ==
    LET Leftmost(starts) == IF starts = {} THEN NoMatch ELSE ExecAt(regex, s, Least(starts))
    IN  Leftmost({start \in from..Len(s) : ExecAt(regex, s, start).found})

\* RegExp.prototype.test of a regex without flag g
Test(regex, s) == Exec(regex, s, 0).found

\* RegExp.prototype.test of a regex with flag g: reads and writes lastIndex
TestGlobal(regex, s, lastIndex) ==
    IF lastIndex > Len(s) THEN [result |-> FALSE, lastIndex |-> 0]
    ELSE LET Result(m) == IF m.found THEN [result |-> TRUE, lastIndex |-> m.end]
                          ELSE [result |-> FALSE, lastIndex |-> 0]
         IN  Result(Exec(regex, s, lastIndex))

\* the text captured by group g of match m
GroupText(regex, s, m, g) ==
    LET span == regex[m.alt].groups[g]
        from == IF span[1] = 1 THEN m.start ELSE m.ends[span[1] - 1]
    IN  Slice(s, from, m.ends[span[2]])

\* a replacement template is a sequence of [lit |-> text] and [grp |-> n]
RECURSIVE Expand(_, _, _, _)
Expand(tmpl, regex, s, m) ==
    IF Len(tmpl) = 0 THEN ""
    ELSE (IF "grp" \in DOMAIN tmpl[1]
          THEN GroupText(regex, s, m, tmpl[1].grp)
          ELSE tmpl[1].lit) \o Expand(Tail(tmpl), regex, s, m)

\* String.prototype.replace with a regex that has flag g
RECURSIVE ReplaceFrom(_, _, _, _)
ReplaceFrom(regex, s, pos, tmpl) ==
    IF pos > Len(s) THEN ""
    ELSE LET Replaced(m) ==
                 IF ~m.found THEN Slice(s, pos, Len(s))
                 ELSE IF m.end = m.start
                      THEN Slice(s, pos, m.start) \o Expand(tmpl, regex, s, m)
                           \o Slice(s, m.start, Min2(m.start + 1, Len(s)))
                           \o ReplaceFrom(regex, s, m.start + 1, tmpl)
                 ELSE Slice(s, pos, m.start) \o Expand(tmpl, regex, s, m)
                      \o ReplaceFrom(regex, s, m.end, tmpl)
         IN  Replaced(Exec(regex, s, pos))

ReplaceAll(regex, s, tmpl) == ReplaceFrom(regex, s, 0, tmpl)

-----------------------------------------------------------------------------
(* The extension's pattern catalog and fixes *)

SqlRegex ==
    <<Alt(LitI("execute") \o Star(WS) \o Lit("(") \o Star(WS) \o One(Quote)
          \o NotStar(Quote) \o One(Quote) \o Star(WS) \o Lit("+"), <<>>)>>

PasswordTail ==
    Star(WS) \o Lit("=") \o Star(WS) \o One(Quote) \o NotPlus(Quote) \o One(Quote)

PasswordRegex ==
    <<Alt(LitI("password") \o PasswordTail, <<<<1, 8>>>>),
      Alt(LitI("pwd") \o PasswordTail, <<<<1, 3>>>>),
      Alt(LitI("pass") \o PasswordTail, <<<<1, 4>>>>)>>

EvalRegex == <<Alt(LitI("eval") \o Star(WS) \o Lit("("), <<>>)>>

InnerHtmlRegex == <<Alt(LitI("innerHTML") \o Star(WS) \o Lit("="), <<>>)>>

XssRegex ==
    InnerHtmlRegex \o <<Alt(LitI("document.write") \o Star(WS) \o Lit("("), <<>>)>>

Md5Regex == <<Alt(LitI("md5") \o Star(WS) \o Lit("("), <<>>)>>

Sha1Regex == <<Alt(LitI("sha1") \o Star(WS) \o Lit("("), <<>>)>>

WeakCryptoRegex ==
    <<Alt(LitI("md5") \o Star(WS) \o Lit("("), <<<<1, 3>>>>),
      Alt(LitI("sha1") \o Star(WS) \o Lit("("), <<<<1, 4>>>>)>>

PickleRegex ==
    <<Alt(LitI("pickle.load") \o Opt(CaseFold("s")) \o Star(WS) \o Lit("("), <<>>)>>

ShellRegex ==
    <<Alt(LitI("os.system") \o Star(WS) \o Lit("("), <<>>),
      Alt(LitI("subprocess.call") \o Star(WS) \o Lit("("), <<>>)>>

Pattern(type, severity, regex, description) ==
    [type |-> type, severity |-> severity, regex |-> regex, description |-> description]

CommonPatterns ==
    <<Pattern("SQL Injection", "high", SqlRegex, "Potential SQL injection vulnerability"),
      Pattern("Hardcoded Password", "high", PasswordRegex, "Hardcoded password detected"),
      Pattern("Eval Usage", "high", EvalRegex, "Use of eval() function is dangerous"),
      Pattern("XSS Vulnerability", "medium", XssRegex, "Potential XSS vulnerability"),
      Pattern("Weak Crypto", "medium", WeakCryptoRegex, "Weak cryptographic algorithm detected")>>

PythonPatterns ==
    <<Pattern("Pickle Unsafe", "high", PickleRegex,
              "Unsafe pickle usage can lead to code execution"),
      Pattern("Shell Command Injection", "high", ShellRegex,
              "Potential shell command injection")>>

\* the catalog for a language; every call evaluates the regex literals again
getVulnerabilityPatterns(language) ==
    IF language = "python" THEN CommonPatterns \o PythonPatterns ELSE CommonPatterns

Text(t) == <<[lit |-> t]>>

\* The fixed line and the lastIndex the call leaves in pattern.regex (the
\* Weak Crypto case calls pattern.regex.test('md5') on the catalog's regex).
generateFix(line, pattern, language, lastIndex) ==
    LET keep(fixed) == [fixed |-> fixed, lastIndex |-> lastIndex]
    IN  CASE pattern.type = "SQL Injection" ->
               IF language = "python"
               THEN keep(ReplaceAll(SqlRegex, line,
                        Text("execute(\"SELECT * FROM table WHERE id = ?\", (user_input,))")))
               ELSE keep(ReplaceAll(SqlRegex, line,
                        Text("execute(\"SELECT * FROM table WHERE id = ?\", [userInput])")))
          [] pattern.type = "Hardcoded Password" ->
               keep(ReplaceAll(PasswordRegex, line,
                        <<[grp |-> 1], [lit |-> " = process.env.PASSWORD || \"\""]>>))
          [] pattern.type = "Eval Usage" ->
               keep(ReplaceAll(EvalRegex, line, Text("JSON.parse(")))
          [] pattern.type = "XSS Vulnerability" ->
               keep(ReplaceAll(InnerHtmlRegex, line, Text("textContent =")))
          [] pattern.type = "Weak Crypto" ->
               LET Tested(t) ==
                       [fixed |-> IF t.result
                                  THEN ReplaceAll(Md5Regex, line,
                                           Text("crypto.createHash('sha256').update("))
                                  ELSE ReplaceAll(Sha1Regex, line,
                                           Text("crypto.createHash('sha256').update(")),
                        lastIndex |-> t.lastIndex]
               IN  Tested(TestGlobal(pattern.regex, "md5", lastIndex))
          [] OTHER ->
               keep("// TODO: Fix " \o pattern.type \o " vulnerability\n" \o line)

TwoBased(index) == index + 2

\* the line number of the forEach index of a line: index + 1
LineNumber(index) == index + 1

Vulnerability(type, severity, line, description, fixed_code) ==
    [type |-> type, severity |-> severity, line |-> line,
     description |-> description, fixed_code |-> fixed_code]

\* The two nested forEach loops of performScan from line index i (0-based)
\* and pattern j (1-based); li holds the lastIndex of every catalog regex.
RECURSIVE ScanLoop(_, _, _, _, _, _)
ScanLoop(lines, language, patterns, i, j, st) ==
    IF i >= Len(lines) THEN st
    ELSE IF j > Len(patterns) THEN ScanLoop(lines, language, patterns, i + 1, 1, st)
    ELSE LET line == lines[i + 1]
             pattern == patterns[j]
             Found(f) ==
                 ScanLoop(lines, language, patterns, i, j + 1,
                     [vulnerabilities |-> Append(st.vulnerabilities,
                          Vulnerability(pattern.type, pattern.severity, LineNumber(i),
                                        pattern.description, f.fixed)),
                      lastIndex |-> [st.lastIndex EXCEPT ![j] = f.lastIndex]])
             Tested(t) ==
                 IF t.result
                 THEN Found(generateFix(line, pattern, language, t.lastIndex))
                 ELSE ScanLoop(lines, language, patterns, i, j + 1,
                          [st EXCEPT !.lastIndex[j] = t.lastIndex])
         IN  Tested(TestGlobal(pattern.regex, line, st.lastIndex[j]))

-----------------------------------------------------------------------------
(* applyFixes: the edits it issues and what the editor does with them *)

CompareLinesAsc(a, b) == a.line - b.line

\* Array.prototype.sort((a, b) => b.line - a.line): stable, descending line
CompareLinesDesc(a, b) == b.line - a.line

RECURSIVE InsertSorted(_, _)
InsertSorted(sorted, v) ==
    IF Len(sorted) = 0 THEN <<v>>
    ELSE IF CompareLinesDesc(sorted[Len(sorted)], v) <= 0 THEN Append(sorted, v)
    ELSE Append(InsertSorted(SubSeq(sorted, 1, Len(sorted) - 1), v), sorted[Len(sorted)])

RECURSIVE SortVulns(_)
SortVulns(vs) ==
    IF Len(vs) = 0 THEN <<>>
    ELSE InsertSorted(SortVulns(SubSeq(vs, 1, Len(vs) - 1)), vs[Len(vs)])

\* the editBuilder.replace calls of the callback, in the order they are made
RECURSIVE IssuedEdits(_, _)
IssuedEdits(sortedVulns, snapshot) ==
    IF Len(sortedVulns) = 0 THEN <<>>
    ELSE LET vuln == Head(sortedVulns)
             lineIndex == vuln.line - 1
         IN  (IF vuln.fixed_code # "" /\ lineIndex < Len(snapshot)
              THEN <<[line |-> lineIndex, endCol |-> Len(snapshot[lineIndex + 1]),
                      text |-> vuln.fixed_code]>>
              ELSE <<>>) \o IssuedEdits(Tail(sortedVulns), snapshot)

\* TextDocument.validateRange: positions are clamped to the current document
ValidateEdit(e, doc) ==
    IF e.line >= Len(doc)
    THEN [line |-> Len(doc) - 1, sc |-> Len(doc[Len(doc)]), ec |-> Len(doc[Len(doc)]),
          text |-> e.text]
    ELSE [line |-> e.line, sc |-> 0, ec |-> Min2(e.endCol, Len(doc[e.line + 1])),
          text |-> e.text]

PosBefore(l1, c1, l2, c2) == l1 < l2 \/ (l1 = l2 /\ c1 < c2)

\* TextEditor.edit rejects a batch in which one range starts before the end
\* of a range that precedes it in (end, start) order
SortedBefore(a, b) ==
    \/ PosBefore(a.line, a.ec, b.line, b.ec)
    \/ a.line = b.line /\ a.ec = b.ec /\ a.sc <= b.sc

Overlapping(ves) ==
    \E i, j \in DOMAIN ves :
        /\ i # j
        /\ SortedBefore(ves[i], ves[j])
        /\ PosBefore(ves[j].line, ves[j].sc, ves[i].line, ves[i].ec)

Perms(n) == {f \in [1..n -> 1..n] : \A i, j \in 1..n : i # j => f[i] # f[j]}

RECURSIVE ConcatTexts(_, _, _, _)
\* the texts of the edits chosen by keep, in the order perm
ConcatTexts(ves, perm, keep, i) ==
    IF i > Len(ves) THEN ""
    ELSE (IF perm[i] \in keep THEN ves[perm[i]].text ELSE "")
         \o ConcatTexts(ves, perm, keep, i + 1)

\* All ranges refer to the document as it is when the batch is applied.
\* Inserts at one position are taken in the order perm.
EditedLine(doc, ves, perm, k) ==
    LET cur == doc[k + 1]
        atStart == {i \in DOMAIN ves : ves[i].line = k /\ ves[i].sc = 0}
        atEnd == {i \in DOMAIN ves : ves[i].line = k /\ ves[i].sc # 0}
        cut == IF atStart = {} THEN 0 ELSE ves[CHOOSE i \in atStart : TRUE].ec
    IN  ConcatTexts(ves, perm, atStart, 1) \o Slice(cur, cut, Len(cur))
        \o ConcatTexts(ves, perm, atEnd, 1)

ApplyEdits(doc, ves, perm) ==
    Split(Join([k \in 1..Len(doc) |-> EditedLine(doc, ves, perm, k - 1)]))

\* the orders in which the editor may take inserts at one position
InsertOrders(ves) ==
    IF \E i, j \in DOMAIN ves :
           i # j /\ ves[i].line = ves[j].line /\ ves[i].sc = ves[j].sc
    THEN Perms(Len(ves))
    ELSE {[i \in 1..Len(ves) |-> i]}

-----------------------------------------------------------------------------
(* The analysis route's pattern checks *)

SonarIssue(key, rule, severity, line, message) ==
    [key |-> key, rule |-> rule, severity |-> severity, component |-> "file",
     line |-> line, message |-> message, type |-> "VULNERABILITY", status |-> "OPEN"]

\* the issues analyzeSecurityPatterns pushes for one line
LineIssues(line, lineNumber, language) ==
    LET n == ToString(lineNumber)
    IN  (IF language \in {"javascript", "typescript"}
         THEN (IF Includes(line, "eval(") \/ Includes(line, "Function(")
               THEN <<SonarIssue("security-eval-" \o n, "javascript:S4784", "CRITICAL", lineNumber,
                        "Using eval or Function constructor can lead to code injection vulnerabilities")>>
               ELSE <<>>)
              \o (IF Includes(line, "innerHTML") \/ Includes(line, "outerHTML")
                  THEN <<SonarIssue("security-innerhtml-" \o n, "javascript:S5443", "BLOCKER", lineNumber,
                        "Using innerHTML can expose the application to Cross-Site Scripting (XSS) attacks")>>
                  ELSE <<>>)
              \o (IF Includes(line, "password") /\ Includes(line, "=")
                  THEN <<SonarIssue("security-password-" \o n, "javascript:S2068", "CRITICAL", lineNumber,
                        "Hardcoded credentials detected in source code")>>
                  ELSE <<>>)
              \o (IF Includes(line, "SELECT") /\ Includes(line, "FROM") /\ Includes(line, "+")
                  THEN <<SonarIssue("security-sql-" \o n, "javascript:S2077", "CRITICAL", lineNumber,
                        "SQL query built from user input can lead to SQL injection")>>
                  ELSE <<>>)
         ELSE <<>>)
        \o (IF language = "python"
            THEN (IF Includes(line, "eval(")
                  THEN <<SonarIssue("security-eval-" \o n, "python:S4823", "CRITICAL", lineNumber,
                        "Using eval can lead to code injection vulnerabilities")>>
                  ELSE <<>>)
                 \o (IF Includes(line, "os.system") \/ Includes(line, "subprocess.call")
                     THEN <<SonarIssue("security-shell-" \o n, "python:S4817", "CRITICAL", lineNumber,
                        "Executing shell commands with user input can lead to command injection")>>
                     ELSE <<>>)
            ELSE <<>>)
        \o (IF language = "java"
            THEN (IF Includes(line, "Statement") /\ Includes(line, "executeQuery")
                  THEN <<SonarIssue("security-sql-" \o n, "java:S2077", "CRITICAL", lineNumber,
                        "SQL query built from user input can lead to SQL injection")>>
                  ELSE <<>>)
                 \o (IF Includes(line, "ObjectInputStream") \/ Includes(line, "readObject")
                     THEN <<SonarIssue("security-deserialization-" \o n, "java:S4823", "CRITICAL", lineNumber,
                        "Deserializing untrusted data can lead to remote code execution")>>
                     ELSE <<>>)
            ELSE <<>>)

RECURSIVE IssuesFrom(_, _, _)
IssuesFrom(ls, i, language) ==
    IF i >= Len(ls) THEN <<>>
    ELSE LineIssues(ls[i + 1], LineNumber(i), language) \o IssuesFrom(ls, i + 1, language)

analyzeSecurityPatterns(code, language) == IssuesFrom(Split(code), 0, language)

\* the issues of waitForAnalysis (always none) followed by the pattern issues
enhanceWithSecurityAnalysis(code, sonarIssues, language) ==
    sonarIssues \o analyzeSecurityPatterns(code, language)

-----------------------------------------------------------------------------
(* The extension's scan-and-fix command and the analysis route, on one file *)

MaxLines == 2

MaxScans == 2

MaxUserEdits == 1

Languages == {"javascript", "python", "java"}

LinePool == {"eval(x)", "document.write(md5(h))"}

TypedLine == "os.system(c)"

Docs == {<<"">>} \cup UNION {[1..n -> LinePool] : n \in 1..MaxLines}

VARIABLES
    document,         \* the lines of editor.document
    languageId,       \* editor.document.languageId
    autoFix,          \* the setting aiSast.autoFix
    pc,               \* where the command is: idle, confirmFix, confirmApply
    lines,            \* the snapshot taken by scanAndFixVulnerabilities
    vulnerabilities,  \* the array filled by performScan
    lastIndex,        \* lastIndex of the regex of every catalog entry
    edits,            \* the replace calls applyFixes made for the last scan
    docAtEdit,        \* the document when they were made
    outcome,          \* how the last command ended
    refScan,          \* input and findings of one earlier scan
    reScan,           \* the latest later scan of the same input
    nScans,           \* scans so far
    nUserEdits,       \* user edits so far
    sonarReq,         \* the last request body of the analysis route
    sonarResp         \* its response

extVars == <<document, languageId, autoFix, pc, lines, vulnerabilities, lastIndex,
             edits, docAtEdit, outcome, refScan, reScan, nScans, nUserEdits,
             sonarReq, sonarResp>>

VARIABLES
    fixReq,           \* the body of the last fix request
    fixAi,            \* how the completion call of this request ended
    fixSource,        \* which path produced the response: ai, rule or error
    fixResp           \* the response of the fix route

fixVars == <<fixReq, fixAi, fixSource, fixResp>>

VARIABLES
    enrReq,           \* the finding being enriched and the text it is in
    enrAi,            \* how the analysis of this finding ended
    enrOut,           \* the enriched finding
    enrContext        \* the code context built for it

enrVars == <<enrReq, enrAi, enrOut, enrContext>>

VARIABLES
    batReq,           \* the analysis request being served
    batIdx,           \* how many of its findings are enriched
    batOut,           \* the enriched findings so far
    batCall,          \* the completion call awaited: none, finding or file
    batResp           \* the response, once there is one

batVars == <<batReq, batIdx, batOut, batCall, batResp>>

VARIABLES
    dashList,         \* the dashboard's state vulnerabilities
    dashTimers,       \* ids whose setTimeout of applyAIFix is pending
    dashLast,         \* the last change of a status: id, from, to
    dashFound         \* findings pushed by the real-time scanner so far

dashVars == <<dashList, dashTimers, dashLast, dashFound>>

VARIABLES
    sqDoc,            \* the text of the document analyzeFile is given
    sqPc,             \* the call analyzeFile awaits, or done
    sqCalls,          \* how the REST calls of this run ended, in order
    sqResult          \* what analyzeFile returned or threw

sqVars == <<sqDoc, sqPc, sqCalls, sqResult>>

VARIABLES
    rtIsScanning,     \* the state isScanning of RealTimeScanner
    rtAutoScan,       \* the state autoScan
    rtTimerSees,      \* isScanning as the interval's handleFileChange closed over it
    rtRunning,        \* the scans between their start and their finally block
    rtManualLeft,     \* files startManualScan has still to pass to handleFileChange
    rtStarted         \* scans started so far

rtVars == <<rtIsScanning, rtAutoScan, rtTimerSees, rtRunning, rtManualLeft, rtStarted>>

VARIABLES
    cfgConfig,        \* this.config of ConfigManager, section by section
    cfgDefault,       \* the exported object defaultConfig
    cfgShared,        \* sections of this.config that are defaultConfig's own objects
    cfgStorage,       \* the localStorage item sast-config
    cfgListeners,     \* this.listeners
    cfgSubs,          \* the subscribe calls made so far and whether each was unsubscribed
    cfgLast,          \* the last call: what it was given and what it did
    cfgOps            \* calls that change the configuration so far

cfgVars == <<cfgConfig, cfgDefault, cfgShared, cfgStorage, cfgListeners, cfgSubs,
             cfgLast, cfgOps>>

vars == <<extVars, fixVars, enrVars, batVars, dashVars, sqVars, rtVars, cfgVars>>

None == [none |-> TRUE]

ExtInit ==
    /\ document \in Docs
    /\ languageId \in Languages
    /\ autoFix \in BOOLEAN
    /\ pc = "idle"
    /\ lines = <<>>
    /\ vulnerabilities = <<>>
    /\ lastIndex = <<>>
    /\ edits = <<>>
    /\ docAtEdit = <<>>
    /\ outcome = "none"
    /\ refScan = None
    /\ reScan = None
    /\ nScans = 0
    /\ nUserEdits = 0
    /\ sonarReq = None
    /\ sonarResp = None

\* type, severity, line and description of the findings, in order
Summary(vs) ==
    [i \in DOMAIN vs |-> [type |-> vs[i].type, severity |-> vs[i].severity,
                          line |-> vs[i].line, description |-> vs[i].description]]

ScanRecord(engine, text, language, findings) ==
    [engine |-> engine, text |-> text, language |-> language, findings |-> findings]

ScanInput(r) == [engine |-> r.engine, text |-> r.text, language |-> r.language]

\* The history kept of a finished scan: the first scan is kept for comparison,
\* and so is the latest later scan of the same input.
LogScan(r) ==
    IF refScan = None
    THEN refScan' = r /\ reScan' = None
    ELSE /\ refScan' = refScan
         /\ reScan' = IF ScanInput(refScan) = ScanInput(r) THEN r ELSE reScan

\* lastIndex of the regex objects a call of getVulnerabilityPatterns creates
StaleLastIndex(patterns) ==
    [j \in DOMAIN patterns |-> IF j \in DOMAIN lastIndex THEN lastIndex[j] ELSE 0]

FreshLastIndex(patterns) == [j \in DOMAIN patterns |-> 0]

performScanLoop(snapshot, language) ==
    LET patterns == getVulnerabilityPatterns(language)
    IN  ScanLoop(snapshot, language, patterns, 0, 1,
                 [vulnerabilities |-> <<>>, lastIndex |-> FreshLastIndex(patterns)])

\* applyFixes from the sort to the end of editor.edit
EditStep(vulns, snapshot) ==
    LET sortedVulns == SortVulns(vulns)
        issued == IssuedEdits(sortedVulns, snapshot)
        ves == [i \in DOMAIN issued |-> ValidateEdit(issued[i], document)]
    IN  /\ vulnerabilities' = sortedVulns
        /\ edits' = issued
        /\ docAtEdit' = document
        /\ pc' = "idle"
        /\ IF Overlapping(ves)
           THEN document' = document /\ outcome' = "rejected"
           ELSE /\ \E perm \in InsertOrders(ves) : document' = ApplyEdits(document, ves, perm)
                /\ outcome' = "applied"

applyFixesUnasked(vulns, snapshot) == EditStep(vulns, snapshot)

\* applyFixes: asks when autoFix is off
applyFixes(vulns, snapshot) ==
    IF autoFix THEN EditStep(vulns, snapshot)
    ELSE /\ pc' = "confirmApply"
         /\ vulnerabilities' = vulns
         /\ UNCHANGED <<document, edits, docAtEdit, outcome>>

\* scanAndFixVulnerabilities and performScan up to the first dialog
ScanAndFix ==
    /\ pc = "idle"
    /\ nScans < MaxScans
    /\ nScans' = nScans + 1
    /\ \E text \in {Join(document)} : \E snapshot \in {Split(text)} :
       \E r \in {performScanLoop(snapshot, languageId)} :
           /\ lines' = snapshot
           /\ lastIndex' = r.lastIndex
           /\ LogScan(ScanRecord("extension", text, languageId, Summary(r.vulnerabilities)))
           /\ IF Len(r.vulnerabilities) = 0
              THEN /\ pc' = "idle"
                   /\ outcome' = "clean"
                   /\ vulnerabilities' = <<>>
                   /\ edits' = <<>>
                   /\ docAtEdit' = <<>>
                   /\ UNCHANGED document
              ELSE IF autoFix
              THEN applyFixes(r.vulnerabilities, snapshot)
              ELSE /\ pc' = "confirmFix"
                   /\ vulnerabilities' = r.vulnerabilities
                   /\ outcome' = "pending"
                   /\ edits' = <<>>
                   /\ docAtEdit' = <<>>
                   /\ UNCHANGED document
    /\ UNCHANGED <<languageId, autoFix, nUserEdits, sonarReq, sonarResp>>
    /\ UNCHANGED <<fixVars, enrVars, batVars, dashVars, sqVars, rtVars, cfgVars>>

\* the answer to 'Fix them automatically?'
ChooseFix(choice) ==
    /\ pc = "confirmFix"
    /\ IF choice = "Fix All"
       THEN applyFixes(vulnerabilities, lines)
       ELSE /\ pc' = "idle"
            /\ outcome' = "declined"
            /\ UNCHANGED <<document, vulnerabilities, edits, docAtEdit>>
    /\ UNCHANGED <<languageId, autoFix, lines, lastIndex, refScan, reScan, nScans,
                   nUserEdits, sonarReq, sonarResp>>
    /\ UNCHANGED <<fixVars, enrVars, batVars, dashVars, sqVars, rtVars, cfgVars>>

\* the answer to 'Apply n automatic fixes?'
ChooseApply(choice) ==
    /\ pc = "confirmApply"
    /\ IF choice = "Apply All"
       THEN EditStep(vulnerabilities, lines)
       ELSE /\ pc' = "idle"
            /\ outcome' = "declined"
            /\ UNCHANGED <<document, vulnerabilities, edits, docAtEdit>>
    /\ UNCHANGED <<languageId, autoFix, lines, lastIndex, refScan, reScan, nScans,
                   nUserEdits, sonarReq, sonarResp>>
    /\ UNCHANGED <<fixVars, enrVars, batVars, dashVars, sqVars, rtVars, cfgVars>>

InsertAt(doc, i, l) == SubSeq(doc, 1, i) \o <<l>> \o SubSeq(doc, i + 1, Len(doc))

RemoveAt(doc, i) == SubSeq(doc, 1, i - 1) \o SubSeq(doc, i + 1, Len(doc))

\* the user types a line at the top or deletes a line while a dialog of the
\* command is open
UserEdit ==
    /\ pc # "idle"
    /\ nUserEdits < MaxUserEdits
    /\ \/ document' = InsertAt(document, 0, TypedLine)
       \/ /\ Len(document) > 1
          /\ \E i \in 1..Len(document) : document' = RemoveAt(document, i)
    /\ nUserEdits' = nUserEdits + 1
    /\ UNCHANGED <<languageId, autoFix, pc, lines, vulnerabilities, lastIndex, edits,
                   docAtEdit, outcome, refScan, reScan, nScans, sonarReq, sonarResp>>
    /\ UNCHANGED <<fixVars, enrVars, batVars, dashVars, sqVars, rtVars, cfgVars>>

\* POST of the analysis route for the file of the editor; upstream is how the
\* calls to the SonarQube server end
SonarPost(upstream) ==
    /\ pc = "idle"
    /\ nScans < MaxScans
    /\ nScans' = nScans + 1
    /\ LET code == Join(document)
       IN  /\ sonarReq' = [code |-> code, language |-> languageId]
           /\ IF upstream = "ok"
              THEN LET issues == enhanceWithSecurityAnalysis(code, <<>>, languageId)
                   IN  /\ sonarResp' = [status |-> 200, success |-> TRUE, issues |-> issues]
                       /\ LogScan(ScanRecord("route", code, languageId, [i \in DOMAIN issues |->
                              [type |-> issues[i].rule, severity |-> issues[i].severity,
                               line |-> issues[i].line, description |-> issues[i].message]]))
              ELSE /\ sonarResp' = [status |-> 500, error |-> "Analysis failed"]
                   /\ UNCHANGED <<refScan, reScan>>
    /\ UNCHANGED <<document, languageId, autoFix, pc, lines, vulnerabilities, lastIndex,
                   edits, docAtEdit, outcome, nUserEdits>>
    /\ UNCHANGED <<fixVars, enrVars, batVars, dashVars, sqVars, rtVars, cfgVars>>

\* what showWarningMessage resolves to when the dialog is dismissed
Dismissed == "undefined"

FixChoices == {"Fix All", "Show Details", "Ignore", Dismissed}

ApplyChoices == {"Apply All", "Review First", "Cancel", Dismissed}

ExtNext ==
    \/ ScanAndFix
    \/ \E choice \in FixChoices : ChooseFix(choice)
    \/ \E choice \in ApplyChoices : ChooseApply(choice)
    \/ UserEdit
    \/ \E upstream \in {"ok", "ensureProject fails", "uploadCode fails"} : SonarPost(upstream)

\* no fix request and no enrichment is in progress
FixIdle ==
    /\ fixReq = None
    /\ fixAi = None
    /\ fixSource = "none"
    /\ fixResp = None

EnrIdle ==
    /\ enrReq = None
    /\ enrAi = None
    /\ enrOut = None
    /\ enrContext = None

\* no analysis request is being served
BatIdle ==
    /\ batReq = None
    /\ batIdx = 0
    /\ batOut = <<>>
    /\ batCall = "none"
    /\ batResp = None

\* the useState initial value of the dashboard's vulnerabilities
InitialVulnerabilities ==
    <<[id |-> "1", severity |-> "critical", status |-> "analyzing"],
      [id |-> "2", severity |-> "high", status |-> "detected"],
      [id |-> "3", severity |-> "medium", status |-> "fixed"]>>

\* the dashboard as it is mounted
DashIdle ==
    /\ dashList = InitialVulnerabilities
    /\ dashTimers = {}
    /\ dashLast = None
    /\ dashFound = 0

\* SonarQubeService.analyzeFile is not running
SqIdle ==
    /\ sqDoc = ""
    /\ sqPc = "idle"
    /\ sqCalls = <<>>
    /\ sqResult = None

\* RealTimeScanner as it is mounted: the effect has set the interval
RtIdle ==
    /\ rtIsScanning = FALSE
    /\ rtAutoScan = TRUE
    /\ rtTimerSees = "false"
    /\ rtRunning = {}
    /\ rtManualLeft = 0
    /\ rtStarted = 0

\* the literal of defaultConfig; temperature is in tenths (0.2 is 2)
defaultConfig ==
    [sonarQube |-> [url |-> "http://localhost:9000", timeout |-> 30000],
     ai |-> [confidenceThreshold |-> 85, maxTokens |-> 2000, temperature |-> 2]]

\* configManager as constructed with nothing in localStorage: this.config is
\* a shallow copy of defaultConfig, so every section is defaultConfig's object
CfgIdle ==
    /\ cfgConfig = defaultConfig
    /\ cfgDefault = defaultConfig
    /\ cfgShared = DOMAIN defaultConfig
    /\ cfgStorage = None
    /\ cfgListeners = <<>>
    /\ cfgSubs = <<>>
    /\ cfgLast = [op |-> "new"]
    /\ cfgOps = 0

Init == ExtInit /\ FixIdle /\ EnrIdle /\ BatIdle /\ DashIdle /\ SqIdle /\ RtIdle /\ CfgIdle

Next == ExtNext

Spec == Init /\ [][Next]_vars

-----------------------------------------------------------------------------
(* Claims about the scanners and the extension's fixes *)

ScanDone == lines # <<>>

EvalRules == {"javascript:S4784", "python:S4823"}

\* C1: in every supported language, when a line of the scanned text contains
\* eval( the scan returns a finding of the eval entry, both in the extension's
\* performScan and in the analysis route's analyzeSecurityPatterns.
C1_EvalAlwaysFound ==
    /\ ScanDone /\ (\E i \in DOMAIN lines : Includes(lines[i], "eval("))
         => \E i \in DOMAIN vulnerabilities : vulnerabilities[i].type = "Eval Usage"
    /\ sonarResp # None /\ sonarResp.status = 200
         /\ (\E l \in {Split(sonarReq.code)[i] : i \in DOMAIN Split(sonarReq.code)} :
                Includes(l, "eval("))
         => \E i \in DOMAIN sonarResp.issues : sonarResp.issues[i].rule \in EvalRules

\* C2: within one scan of performScan every line that matches the pattern of
\* a catalog entry gets a finding of that entry, whatever the entry matched
\* on the lines before.
C2_EveryMatchingLineFlagged ==
    ScanDone =>
        \A i \in DOMAIN lines :
            \A j \in DOMAIN getVulnerabilityPatterns(languageId) :
                LET pattern == getVulnerabilityPatterns(languageId)[j]
                IN  Test(pattern.regex, lines[i])
                      => \E k \in DOMAIN vulnerabilities :
                            /\ vulnerabilities[k].line = i
                            /\ vulnerabilities[k].type = pattern.type

DeterministicFixTypes ==
    {"SQL Injection", "Hardcoded Password", "Eval Usage", "XSS Vulnerability", "Weak Crypto"}

\* C5: the line generateFix produces for a finding of an entry with a
\* deterministic fix no longer matches the pattern of that entry.
C5_FixRemovesPattern ==
    \A k \in DOMAIN vulnerabilities :
        vulnerabilities[k].type \in DeterministicFixTypes =>
            \A j \in DOMAIN CommonPatterns :
                CommonPatterns[j].type = vulnerabilities[k].type
                  => ~Test(CommonPatterns[j].regex, vulnerabilities[k].fixed_code)

DistinctLines(vs) == \A i, j \in DOMAIN vs : i # j => vs[i].line # vs[j].line

\* the scanned text with every target line replaced by its fixed text
FixedText(snapshot, vs) ==
    [k \in DOMAIN snapshot |->
        IF \E i \in DOMAIN vs : vs[i].line = k
        THEN vs[CHOOSE i \in DOMAIN vs : vs[i].line = k].fixed_code
        ELSE snapshot[k]]

\* C7: applyFixes issues the edits of a batch in non-increasing line order,
\* and a batch for findings on distinct lines of the scanned text leaves every
\* target line with its own fixed text and every other line as it was, in the
\* same order.
C7_BatchFixesDescending ==
    /\ \A i, j \in DOMAIN edits : i < j => edits[i].line >= edits[j].line
    /\ outcome = "applied" /\ docAtEdit = lines /\ DistinctLines(vulnerabilities)
         => document = Split(Join(FixedText(lines, vulnerabilities)))

C7_Witness ==
    /\ outcome = "applied"
    /\ docAtEdit = lines
    /\ DistinctLines(vulnerabilities)
    /\ Len(edits) >= 2
    /\ edits[1].line > edits[2].line
    /\ document # lines

\* C9: applyFixes never replaces a line whose content differs from the
\* content that was scanned and never edits beyond the end of the document.
C9_NoStaleEdit ==
    \A i \in DOMAIN edits :
        /\ edits[i].line < Len(docAtEdit)
        /\ docAtEdit[edits[i].line + 1] = lines[edits[i].line + 1]

-----------------------------------------------------------------------------
(* The fix route: POST, generateAIFix, validateFix, generateRuleBasedFix *)

\* a value that may be undefined
Some(v) == [defined |-> TRUE, value |-> v]

Undefined == [defined |-> FALSE]

\* what a template literal prints for it
ToStr(opt) == IF opt.defined THEN opt.value ELSE "undefined"

\* array[i]
At(ls, i) == IF i >= 0 /\ i < Len(ls) THEN Some(ls[i + 1]) ELSE Undefined

SetAtNext(ls, i, v) ==
    [k \in 1..Max2(Len(ls), i + 2) |->
         IF k = i + 2 THEN v ELSE IF k <= Len(ls) THEN ls[k] ELSE ""]

\* array[i] = v as join sees it: an index past the end grows the array with
\* holes, which join prints as empty strings; a negative index adds a
\* property and no element
SetAt(ls, i, v) ==
    IF i < 0 THEN ls
    ELSE [k \in 1..Max2(Len(ls), i + 1) |->
             IF k = i + 1 THEN v ELSE IF k <= Len(ls) THEN ls[k] ELSE ""]

\* s.trim() === ''
TrimIsEmpty(s) == \A i \in 0..(Len(s) - 1) : CharAt(s, i) \in WS

\* an exception leaves the function
Thrown == [throws |-> TRUE]

\* /eval\s*\(\s*([^)]+)\s*\)/g
RuleEvalRegex ==
    <<Alt(Lit("eval") \o Star(WS) \o Lit("(") \o Star(WS) \o NotPlus({")"})
          \o Star(WS) \o Lit(")"), <<<<8, 8>>>>)>>

\* /\.innerHTML\s*=/g
RuleInnerHtmlRegex == <<Alt(Lit(".innerHTML") \o Star(WS) \o Lit("="), <<>>)>>

\* /(['"`])[^'"`]*password[^'"`]*\1/gi: the closing quote is the opening one
QuotedPassword(q) ==
    Alt(One({q}) \o NotStar(Quote) \o LitI("password") \o NotStar(Quote) \o One({q}),
        <<<<1, 1>>>>)

RulePasswordRegex == <<QuotedPassword("'"), QuotedPassword("\""), QuotedPassword(Grave)>>

\* /(SELECT\s+.*?\s+FROM\s+\w+\s+WHERE\s+\w+)\s*\+\s*['"`]([^'"`]+)['"`]/g
RuleSqlRegex ==
    <<Alt(Lit("SELECT") \o Plus(WS) \o AnyLazy \o Plus(WS) \o Lit("FROM") \o Plus(WS)
          \o Plus(WordChars) \o Plus(WS) \o Lit("WHERE") \o Plus(WS) \o Plus(WordChars)
          \o Star(WS) \o Lit("+") \o Star(WS) \o One(Quote) \o NotPlus(Quote)
          \o One(Quote), <<<<1, 23>>, <<28, 28>>>>)>>

\* the vulnerabilityPatterns of validateFix, none of them global
ValidateEvalRegex == <<Alt(Lit("eval") \o Star(WS) \o Lit("("), <<>>)>>

ValidateInnerHtmlRegex == <<Alt(Lit("innerHTML") \o Star(WS) \o Lit("="), <<>>)>>

ValidatePasswordRegex ==
    <<Alt(Lit("password") \o Star(WS) \o Lit("=") \o Star(WS) \o One(Quote)
          \o NotPlus(Quote) \o One(Quote), <<>>)>>

SqlConcatTail == AnyStar \o Lit("+") \o AnyStar \o One(Quote)

ValidateSqlRegex ==
    <<Alt(Lit("SELECT") \o SqlConcatTail, <<<<1, 6>>>>),
      Alt(Lit("INSERT") \o SqlConcatTail, <<<<1, 6>>>>),
      Alt(Lit("UPDATE") \o SqlConcatTail, <<<<1, 6>>>>),
      Alt(Lit("DELETE") \o SqlConcatTail, <<<<1, 6>>>>)>>

vulnerabilityPatterns ==
    <<[name |-> "eval", regex |-> ValidateEvalRegex],
      [name |-> "innerHTML", regex |-> ValidateInnerHtmlRegex],
      [name |-> "password", regex |-> ValidatePasswordRegex],
      [name |-> "sqlInjection", regex |-> ValidateSqlRegex]>>

RECURSIVE PatternIssues(_, _)
PatternIssues(fixedCode, k) ==
    IF k > Len(vulnerabilityPatterns) THEN <<>>
    ELSE (IF Test(vulnerabilityPatterns[k].regex, fixedCode)
          THEN <<"Fix still contains vulnerable pattern: " \o vulnerabilityPatterns[k].name>>
          ELSE <<>>) \o PatternIssues(fixedCode, k + 1)

MarkdownFence == Grave \o Grave \o Grave

Abs(n) == IF n < 0 THEN -n ELSE n

\* fixedCode may be undefined: the emptiness test passes over it and
\* fixedCode.split then throws
validateFix(fixedCode, originalCode) ==
    IF ~fixedCode.defined THEN Thrown
    ELSE LET originalLines == Split(originalCode)
             fixedLines == Split(fixedCode.value)
             Result(issues) ==
                 [throws |-> FALSE, isValid |-> Len(issues) = 0, issues |-> issues]
         IN  Result(
                 (IF TrimIsEmpty(fixedCode.value) THEN <<"No fixed code provided">> ELSE <<>>)
                 \o (IF 2 * Abs(Len(originalLines) - Len(fixedLines)) > Len(originalLines)
                     THEN <<"Fix changes code structure too dramatically">> ELSE <<>>)
                 \o PatternIssues(fixedCode.value, 1)
                 \o (IF Includes(fixedCode.value, MarkdownFence)
                     THEN <<"Fix contains markdown formatting">> ELSE <<>>))

\* the case labels of the switch in generateRuleBasedFix
CodeInjectionTypes == {"Code Injection", "javascript:S4784"}

XssTypes == {"Cross-Site Scripting (XSS)", "javascript:S5443"}

CredentialTypes == {"Hardcoded Credentials", "javascript:S2068"}

SqlInjectionTypes == {"SQL Injection", "javascript:S2077"}

RuleTypes == CodeInjectionTypes \cup XssTypes \cup CredentialTypes \cup SqlInjectionTypes

LineFix(fixedLine, explanation, confidence) ==
    [fixedLine |-> fixedLine, explanation |-> explanation, confidence |-> confidence]

\* the switch, for a target line that is a string
CaseFix(type, targetLine) ==
    IF type \in CodeInjectionTypes /\ Includes(targetLine, "eval(")
    THEN LineFix(ReplaceAll(RuleEvalRegex, targetLine,
                     <<[lit |-> "JSON.parse("], [grp |-> 1], [lit |-> ")"]>>),
                 "Replaced eval() with JSON.parse() to prevent code injection", 85)
    ELSE IF type \in XssTypes /\ Includes(targetLine, "innerHTML")
    THEN LineFix(ReplaceAll(RuleInnerHtmlRegex, targetLine, Text(".textContent =")),
                 "Replaced innerHTML with textContent to prevent XSS", 90)
    ELSE IF type \in CredentialTypes /\ Includes(targetLine, "password")
            /\ Includes(targetLine, "=")
    THEN LineFix(ReplaceAll(RulePasswordRegex, targetLine, Text("process.env.PASSWORD")),
                 "Replaced hardcoded password with environment variable", 80)
    ELSE IF type \in SqlInjectionTypes /\ Includes(targetLine, "SELECT")
            /\ Includes(targetLine, "+")
    THEN LineFix(ReplaceAll(RuleSqlRegex, targetLine, <<[grp |-> 1], [lit |-> " = ?"]>>),
                 "Replaced string concatenation with parameterized query", 85)
    ELSE LineFix(targetLine, "", 70)

\* In the four cases targetLine.includes throws when the line does not
\* exist; the default case prints it into the comment and assigns the result
\* at index line - 1 whatever that index is.
generateRuleBasedFix(vulnerability, code, language) ==
    LET codeLines == Split(code)
        targetLine == At(codeLines, vulnerability.line - 1)
    IN  IF vulnerability.type \in RuleTypes /\ ~targetLine.defined THEN Thrown
        ELSE LET Result(fix) ==
                     [throws |-> FALSE,
                      source |-> "rule",
                      success |-> TRUE,
                      fixedCode |-> Some(Join(SetAt(codeLines, vulnerability.line - 1,
                                                    fix.fixedLine))),
                      explanation |-> Some(fix.explanation),
                      confidence |-> Some(fix.confidence),
                      changes |-> <<[line |-> vulnerability.line, original |-> targetLine,
                                     fixed |-> fix.fixedLine, reason |-> fix.explanation]>>]
             IN  Result(IF vulnerability.type \in RuleTypes
                        THEN CaseFix(vulnerability.type, targetLine.value)
                        ELSE LineFix("// TODO: Fix security issue - "
                                         \o vulnerability.description \o "\n"
                                         \o ToStr(targetLine),
                                     "Added security comment for manual review and fix",
                                     50))

\* The completion call of one request: it throws, or its content is not
\* JSON, or is the JSON null, or is an object (content that is missing or
\* empty is read as the object {}).
AiThrows == [kind |-> "throws"]

AiInvalidJson == [kind |-> "invalid"]

AiNull == [kind |-> "null"]

AiObject(fixedCode, confidence) ==
    [kind |-> "object", fixedCode |-> fixedCode, confidence |-> confidence]

AiEmptyObject == AiObject(Undefined, Undefined)

\* the rule-based fix is tried first for the types that have a case
generateAIFixRuleFirst(ai, vulnerability, code, language) ==
    IF vulnerability.type \in RuleTypes \/ ai.kind # "object" \/ ~ai.fixedCode.defined
    THEN generateRuleBasedFix(vulnerability, code, language)
    ELSE [throws |-> FALSE,
          source |-> "ai",
          success |-> validateFix(ai.fixedCode, code).isValid,
          fixedCode |-> ai.fixedCode,
          explanation |-> Undefined,
          confidence |-> ai.confidence,
          changes |-> <<>>]

\* The AI's answer is validated and returned; the catch block around the
\* call, the parse and validateFix falls back to generateRuleBasedFix, whose
\* own exception leaves generateAIFix.
generateAIFix(ai, vulnerability, code, language) ==
    LET Validated(validationResult) ==
            IF validationResult.throws
            THEN generateRuleBasedFix(vulnerability, code, language)
            ELSE [throws |-> FALSE,
                  source |-> "ai",
                  success |-> validationResult.isValid,
                  fixedCode |-> ai.fixedCode,
                  explanation |-> Undefined,
                  confidence |-> ai.confidence,
                  changes |-> <<>>]
    IN  Validated(IF ai.kind = "object" THEN validateFix(ai.fixedCode, code) ELSE Thrown)

FixFailed ==
    [status |-> 500, success |-> FALSE, error |-> "AI fix generation failed"]

FixAnswer(fixResult) ==
    [status |-> 200, success |-> fixResult.success, fixedCode |-> fixResult.fixedCode,
     explanation |-> fixResult.explanation, confidence |-> fixResult.confidence,
     changes |-> fixResult.changes]

\* the requests and the answers of the model
MaxFixLine == 3

FixCodes ==
    {"x = eval(a)\ne.innerHTML = h",
     "password = 'k'\ndocument.write(h)",
     "q = 'SELECT a FROM t WHERE i=' + v",
     "r = eval(x)"}

FixTypes ==
    {"javascript:S4784", "Cross-Site Scripting (XSS)", "javascript:S2068", "SQL Injection",
     "python:S4823"}

FixRequest(type, line, code, language) ==
    [vulnerability |-> [type |-> type, line |-> line, description |-> "d"],
     code |-> code, language |-> language]

FixRequests ==
    {FixRequest(type, line, code, language) :
        type \in FixTypes, line \in 0..MaxFixLine, code \in FixCodes,
        language \in {"javascript", "python"}}

SafeLine == "y = 1"

\* what the AI may put in fixedCode for a request: nothing, the code as it
\* is, the code with the target line rewritten, one safe line, a fenced
\* answer, or a text of another shape
FixedCodes(req) ==
    {"", req.code, SafeLine, MarkdownFence \o "\n" \o SafeLine \o "\n" \o MarkdownFence,
     "a\nb\nc\nd"}
    \cup (IF At(Split(req.code), req.vulnerability.line - 1).defined
          THEN {Join(SetAt(Split(req.code), req.vulnerability.line - 1, SafeLine))}
          ELSE {})

AiObjects(req) ==
    {AiEmptyObject} \cup {AiObject(Some(fixedCode), Some(90)) : fixedCode \in FixedCodes(req)}

\* a request arrives once the one before is answered
FixReceive(req) ==
    /\ fixResp # None
    /\ fixReq' = req
    /\ fixAi' = None
    /\ fixSource' = "none"
    /\ fixResp' = None
    /\ UNCHANGED <<extVars, enrVars, batVars, dashVars, sqVars, rtVars, cfgVars>>

Answered(ai, source, resp) ==
    /\ fixReq # None
    /\ fixResp = None
    /\ fixAi' = ai
    /\ fixSource' = source
    /\ fixResp' = resp
    /\ UNCHANGED <<fixReq, extVars, enrVars, batVars, dashVars, sqVars, rtVars, cfgVars>>

\* POST when ZAI.create() throws
FixPostNoClient ==
    Answered([kind |-> "createFails"], "error", FixFailed)

\* POST from generateAIFix on, for one outcome of the completion call
FixPostFrom(ai) ==
    \E fixResult \in {generateAIFix(ai, fixReq.vulnerability, fixReq.code,
                                     fixReq.language)} :
        IF fixResult.throws
        THEN Answered(ai, "error", FixFailed)
        ELSE Answered(ai, fixResult.source, FixAnswer(fixResult))

\* POST when the completion call throws
FixPostAiThrows == fixReq # None /\ FixPostFrom(AiThrows)

\* POST when the content of the completion is not the JSON of an object
FixPostAiUnparsed(ai) == fixReq # None /\ FixPostFrom(ai)

\* POST when the content of the completion is an object
FixPostAiObject ==
    /\ fixReq # None
    /\ \E ai \in AiObjects(fixReq) : FixPostFrom(ai)

FixNext ==
    \/ \E req \in FixRequests : FixReceive(req)
    \/ FixPostNoClient
    \/ FixPostAiThrows
    \/ \E ai \in {AiInvalidJson, AiNull} : FixPostAiUnparsed(ai)
    \/ FixPostAiObject

ExtIdle ==
    /\ document = <<"">>
    /\ languageId = "javascript"
    /\ autoFix = FALSE
    /\ pc = "idle"
    /\ lines = <<>>
    /\ vulnerabilities = <<>>
    /\ lastIndex = <<>>
    /\ edits = <<>>
    /\ docAtEdit = <<>>
    /\ outcome = "none"
    /\ refScan = None
    /\ reScan = None
    /\ nScans = 0
    /\ nUserEdits = 0
    /\ sonarReq = None
    /\ sonarResp = None

FixInit ==
    /\ ExtIdle
    /\ EnrIdle
    /\ BatIdle
    /\ DashIdle
    /\ SqIdle
    /\ RtIdle
    /\ CfgIdle
    /\ fixReq \in FixRequests
    /\ fixAi = None
    /\ fixSource = "none"
    /\ fixResp = None

SpecFix == FixInit /\ [][FixNext]_vars

-----------------------------------------------------------------------------
(* Claims about the fix route *)

FixDone == fixResp # None

FixLineInRange ==
    At(Split(fixReq.code), fixReq.vulnerability.line - 1).defined

FixTargetLine == At(Split(fixReq.code), fixReq.vulnerability.line - 1).value

\* the rule whose check flags findings of a type
FlaggedRule(type) ==
    IF type \in CodeInjectionTypes THEN "javascript:S4784"
    ELSE IF type \in XssTypes THEN "javascript:S5443"
    ELSE IF type \in CredentialTypes THEN "javascript:S2068"
    ELSE IF type \in SqlInjectionTypes THEN "javascript:S2077"
    ELSE type

\* the line-level detection of analyzeSecurityPatterns for the finding's type
Detects(type, line, language) ==
    LET issues == LineIssues(line, 1, language)
    IN  \E i \in DOMAIN issues : issues[i].rule = FlaggedRule(type)

\* the replacement the response proposes for the target line
ProposedLine ==
    IF fixSource = "rule" THEN fixResp.changes[1].fixed
    ELSE LET l == At(Split(fixResp.fixedCode.value), fixReq.vulnerability.line - 1)
         IN  IF l.defined THEN l.value ELSE ""

\* C4: a fix response with success = true for a flagged target line proposes
\* a replacement that the detection which flagged the line no longer matches.
C4_SuccessOnlyIfPatternGone ==
    /\ FixDone /\ fixResp.status = 200 /\ fixResp.success
    /\ FixLineInRange
    /\ Detects(fixReq.vulnerability.type, FixTargetLine, fixReq.language)
    => ~Detects(fixReq.vulnerability.type, ProposedLine, fixReq.language)

\* the completion delivered an object that carries a fixedCode
AiDelivered == fixAi.kind = "object" /\ fixAi.fixedCode.defined

\* C6 as stated: for a type that has a rule-based transform, the fix
\* returned is the one of the rule-based transform.
C6_RuleBasedFirst ==
    FixDone /\ fixResp.status = 200 /\ fixReq.vulnerability.type \in RuleTypes
    => /\ fixSource = "rule"
       /\ fixResp.fixedCode
              = generateRuleBasedFix(fixReq.vulnerability, fixReq.code,
                                     fixReq.language).fixedCode

\* C6: for every type the AI fix is tried first and, whenever the completion
\* delivers a fixedCode, it is the fix that is returned, with success as
\* validateFix judges it; the rule-based transform is the fix returned exactly
\* when the completion call, the parse or validateFix throws.
C6_AiFirstRuleFallback ==
    FixDone /\ fixAi.kind # "createFails"
    => IF AiDelivered
       THEN /\ fixSource = "ai"
            /\ fixResp.fixedCode = fixAi.fixedCode
            /\ fixResp.success = validateFix(fixAi.fixedCode, fixReq.code).isValid
       ELSE LET r == generateRuleBasedFix(fixReq.vulnerability, fixReq.code,
                                          fixReq.language)
            IN  IF r.throws THEN fixSource = "error" /\ fixResp.status = 500
                ELSE fixSource = "rule" /\ fixResp.fixedCode = r.fixedCode

\* a type with a rule-based transform, a target line the transform rewrites,
\* and the response carries the AI's different fix
C6_Witness ==
    /\ FixDone /\ AiDelivered /\ fixResp.status = 200 /\ fixResp.success
    /\ fixReq.vulnerability.type \in RuleTypes
    /\ FixLineInRange
    /\ CaseFix(fixReq.vulnerability.type, FixTargetLine).fixedLine # FixTargetLine
    /\ fixResp.fixedCode
           # generateRuleBasedFix(fixReq.vulnerability, fixReq.code,
                                  fixReq.language).fixedCode

\* C8: a fix request whose line is outside 1..N is answered with
\* success = false and with no fixedCode other than the submitted code.
C8_StaleLineFails ==
    FixDone /\ ~FixLineInRange
    => /\ ~fixResp.success
       /\ fixResp.status = 200 /\ fixResp.fixedCode.defined
              => fixResp.fixedCode.value = fixReq.code

-----------------------------------------------------------------------------
(* Enrichment of one finding: the AI analysis route's                      *)
(* enhanceVulnerabilityWithAI and the extension's AIService.enhanceWithAI  *)

mapSeverity(sonarSeverity) ==
    CASE sonarSeverity \in {"BLOCKER", "CRITICAL"} -> "critical"
      [] sonarSeverity = "MAJOR" -> "high"
      [] sonarSeverity = "MINOR" -> "medium"
      [] sonarSeverity = "INFO" -> "low"
      [] OTHER -> "medium"

Enhanced(finding, confidence, suggestedFix, analysis) ==
    [throws |-> FALSE, id |-> finding.key, severity |-> mapSeverity(finding.severity),
     type |-> finding.type, line |-> finding.line, description |-> finding.message,
     status |-> "detected", confidence |-> confidence, suggestedFix |-> suggestedFix,
     analysis |-> analysis]

\* the reply of the completion call as JSON.parse reads it
AiAnalysis(confidence, suggestedFix, explanation) ==
    [kind |-> "object", confidence |-> confidence, suggestedFix |-> suggestedFix,
     explanation |-> explanation]

\* aiResponse.confidence || 75: undefined and 0 are falsy
OrDefault(opt, default) ==
    IF opt.defined /\ opt.value # 0 THEN opt.value ELSE default

\* The try block covers the call, the parse and the property reads (which
\* throw on the JSON null); the catch returns the finding with 70.
enhanceVulnerabilityWithAI(ai, vulnerability, code, language) ==
    IF ai.kind = "object"
    THEN Enhanced(vulnerability, OrDefault(ai.confidence, 75), ai.suggestedFix,
                  ai.explanation)
    ELSE Enhanced(vulnerability, 70, Undefined, Undefined)

\* issue.rule.includes throws when the issue has no rule
calculateConfidence(code, issue) ==
    IF ~issue.rule.defined THEN Thrown
    ELSE LET base == 70
             bySeverity == IF issue.severity \in {"BLOCKER", "CRITICAL"} THEN base + 15
                           ELSE IF issue.severity = "MAJOR" THEN base + 10
                           ELSE base
             byRule == IF Includes(issue.rule.value, "S4784")
                          \/ Includes(issue.rule.value, "S5443")
                       THEN bySeverity + 10 ELSE bySeverity
             byLength == IF Len(code) > 100 THEN byRule - 5 ELSE byRule
         IN  [throws |-> FALSE, value |-> Min2(byLength, 95)]

generateSuggestedFix(code, issue, language) ==
    CASE issue.rule = Some("javascript:S4784") ->
             "Replace eval() with safer alternatives like JSON.parse() or specific function calls"
      [] issue.rule = Some("javascript:S5443") ->
             "Use textContent instead of innerHTML, or sanitize the content before insertion"
      [] issue.rule = Some("javascript:S2068") ->
             "Move credentials to environment variables or secure configuration files"
      [] issue.rule = Some("javascript:S2077") ->
             "Use parameterized queries or prepared statements instead of string concatenation"
      [] OTHER -> "Review and implement security best practices for this issue"

generateExplanation(issue, language) ==
    CASE issue.rule = Some("javascript:S4784") ->
             "Code injection vulnerabilities allow attackers to execute arbitrary code"
      [] issue.rule = Some("javascript:S5443") ->
             "XSS attacks can steal user data and session information"
      [] issue.rule = Some("javascript:S2068") ->
             "Hardcoded credentials can be easily extracted from source code"
      [] issue.rule = Some("javascript:S2077") ->
             "SQL injection can lead to data breaches and database compromise"
      [] OTHER -> "This security issue should be addressed to protect your application"

\* its own catch answers every exception of the analysis
analyzeWithAI(code, issue, language) ==
    LET confidence == calculateConfidence(code, issue)
    IN  IF confidence.throws
        THEN [threw |-> TRUE, confidence |-> 50,
              suggestedFix |-> "Review and fix the identified security issue",
              explanation |-> "AI analysis failed. Manual review required."]
        ELSE [threw |-> FALSE, confidence |-> confidence.value,
              suggestedFix |-> generateSuggestedFix(code, issue, language),
              explanation |-> generateExplanation(issue, language)]

\* document.lineAt is called before the try block and throws for a line the
\* document does not have
enhanceWithAI(doc, language, sonarIssue) ==
    LET lineContent == At(doc, sonarIssue.line - 1)
    IN  IF ~lineContent.defined THEN Thrown
        ELSE LET aiAnalysis == analyzeWithAI(lineContent.value, sonarIssue, language)
             IN  Enhanced(sonarIssue, aiAnalysis.confidence, Some(aiAnalysis.suggestedFix),
                          Some(aiAnalysis.explanation))

\* Array.prototype.slice(start, end) for start and end that are not negative
ArraySlice(array, start, end) == SubSeq(array, start + 1, Min2(end, Len(array)))

\* the default of the parameter contextLines
ContextLines == 3

\* getCodeContext of the two routes
getCodeContext(code, lineNumber) ==
    LET codeLines == Split(code)
        start == Max2(0, lineNumber - ContextLines - 1)
        end == Min2(Len(codeLines), lineNumber + ContextLines)
    IN  Join(ArraySlice(codeLines, start, end))

\* AIService.getCodeContext: the lines lineAt(start) .. lineAt(end - 1)
documentCodeContext(doc, lineNumber) ==
    LET start == Max2(0, lineNumber - 3)
        end == Min2(Len(doc), lineNumber + 3)
    IN  Join([i \in 1..(end - start) |-> doc[start + i]])

\* the findings and the replies of the model
MaxEnrLine == 5

Ten == "0123456789"

LongLine == "x = eval(" \o Ten \o Ten \o Ten \o Ten \o Ten \o Ten \o Ten \o Ten \o Ten \o Ten \o ")"

EnrTexts ==
    {<<"x = eval(a)", "e.innerHTML = h">>, <<LongLine>>,
     <<"a = 1", "b = 2", "c = 3", "x = eval(a)", "e = 5">>}

Severities == {"BLOCKER", "MAJOR", "MINOR", "INFO"}

EnrRules == {Undefined, Some("javascript:S4784"), Some("javascript:S2068")}

Finding(rule, severity, line) ==
    [key |-> "k", rule |-> rule, severity |-> severity, line |-> line,
     message |-> "m", type |-> "VULNERABILITY"]

EnrRequests ==
    {[by |-> by, text |-> text, language |-> "javascript",
      finding |-> Finding(rule, severity, line)] :
        by \in {"route", "service"}, text \in EnrTexts, rule \in EnrRules,
        severity \in Severities, line \in 0..MaxEnrLine}

AiAnalyses ==
    {AiAnalysis(confidence, suggestedFix, Some("why")) :
        confidence \in {Undefined, Some(0), Some(85)},
        suggestedFix \in {Undefined, Some("use JSON.parse")}}

\* a finding arrives once the one before is returned
EnrReceive(req) ==
    /\ enrOut # None
    /\ enrReq' = req
    /\ enrAi' = None
    /\ enrOut' = None
    /\ enrContext' = None
    /\ UNCHANGED <<extVars, fixVars, batVars, dashVars, sqVars, rtVars, cfgVars>>

Returned(ai, out) ==
    /\ enrOut = None
    /\ enrAi' = ai
    /\ enrOut' = out
    /\ UNCHANGED <<enrReq, extVars, fixVars, batVars, dashVars, sqVars, rtVars, cfgVars>>

EnrRoute(ai) ==
    /\ enrReq # None
    /\ enrReq.by = "route"
    /\ enrContext' = Some(getCodeContext(Join(enrReq.text), enrReq.finding.line))
    /\ Returned(ai, enhanceVulnerabilityWithAI(ai, enrReq.finding, Join(enrReq.text),
                                               enrReq.language))

\* enhanceVulnerabilityWithAI when the completion call throws
EnrRouteAiThrows == EnrRoute(AiThrows)

\* when the content of the completion is not the JSON of an object
EnrRouteAiUnparsed(ai) == EnrRoute(ai)

\* when the content of the completion is an object
EnrRouteAiObject(ai) == EnrRoute(ai)

\* AIService.enhanceWithAI; the analysis is computed in the extension
EnrService ==
    /\ enrReq # None
    /\ enrReq.by = "service"
    /\ enrContext' = IF At(enrReq.text, enrReq.finding.line - 1).defined
                      THEN Some(documentCodeContext(enrReq.text, enrReq.finding.line))
                      ELSE Undefined
    /\ \E out \in {enhanceWithAI(enrReq.text, enrReq.language, enrReq.finding)} :
           Returned([kind |-> IF ~out.throws
                                 /\ analyzeWithAI(enrReq.text[enrReq.finding.line],
                                                  enrReq.finding, enrReq.language).threw
                              THEN "throws" ELSE "computed"], out)

EnrNext ==
    \/ \E req \in EnrRequests : EnrReceive(req)
    \/ EnrRouteAiThrows
    \/ \E ai \in {AiInvalidJson, AiNull} : EnrRouteAiUnparsed(ai)
    \/ \E ai \in AiAnalyses : EnrRouteAiObject(ai)
    \/ EnrService

EnrInit ==
    /\ ExtIdle
    /\ FixIdle
    /\ BatIdle
    /\ DashIdle
    /\ SqIdle
    /\ RtIdle
    /\ CfgIdle
    /\ enrReq \in EnrRequests
    /\ enrAi = None
    /\ enrOut = None
    /\ enrContext = None

SpecEnrich == EnrInit /\ [][EnrNext]_vars

-----------------------------------------------------------------------------
(* Claims about enrichment *)

EnrDone == enrOut # None /\ ~enrOut.throws

\* the analysis threw, or its reply is not the expected record, or the
\* record carries no confidence
EnrichmentFailed ==
    \/ enrAi.kind \in {"throws", "invalid", "null"}
    \/ enrAi.kind = "object" /\ ~enrAi.confidence.defined

\* C10: a finding whose enrichment failed (the analysis threw, its reply
\* could not be parsed, or it delivered no confidence) is returned with
\* confidence 70 and without a suggestedFix.
C10_FailedEnrichmentKeeps70 ==
    EnrDone /\ EnrichmentFailed
    => enrOut.confidence = 70 /\ ~enrOut.suggestedFix.defined

-----------------------------------------------------------------------------
(* Analysis requests: the AI analyze route, AIService.analyzeVulnerabilities *)
(* and the SonarQube analyze route, each serving one request               *)

\* a finding that was detected rather than enriched
Detected(id, severity, type, line, description, confidence, suggestedFix, analysis) ==
    [throws |-> FALSE, id |-> id, severity |-> severity, type |-> type, line |-> line,
     description |-> description, status |-> "detected", confidence |-> confidence,
     suggestedFix |-> suggestedFix, analysis |-> analysis]

\* the content of the completion is the JSON of an array
AiArray(items) == [kind |-> "array", items |-> items]

\* performAISecurityAnalysis: the elements of the reply are copied as they
\* are; a failed call, an unparsable reply and a reply without map give []
performAISecurityAnalysis(ai) ==
    IF ai.kind = "array"
    THEN [index \in DOMAIN ai.items |->
             Detected("ai-detected-" \o ToString(index - 1), ai.items[index].severity,
                      ai.items[index].type, ai.items[index].line,
                      ai.items[index].description, ai.items[index].confidence,
                      Some(ai.items[index].suggestedFix),
                      Some("AI-detected " \o ai.items[index].type \o " vulnerability"))]
    ELSE <<>>

FetchRegex ==
    <<Alt(Lit("fetch") \o Star(WS) \o Lit("(") \o Star(WS) \o One(Quote)
          \o NotPlus(Quote) \o One(Quote), <<<<10, 10>>>>)>>

DocumentWriteRegex == <<Alt(Lit("document.write") \o Star(WS) \o Lit("("), <<>>)>>

Md5HashRegex ==
    <<Alt(Lit("crypto.createHash") \o Star(WS) \o Lit("(") \o Star(WS) \o One(Quote)
          \o Lit("md5") \o One(Quote), <<>>)>>

RandomRegex ==
    <<Alt(Lit("Math.random") \o Star(WS) \o Lit("(") \o Star(WS) \o Lit(")"), <<>>)>>

\* the patterns of analyzeLineWithAI
AiLinePatterns ==
    <<[pattern |-> FetchRegex, type |-> "Insecure HTTP Request", severity |-> "medium",
       description |-> "Potentially insecure HTTP request detected"],
      [pattern |-> DocumentWriteRegex, type |-> "DOM-based XSS", severity |-> "high",
       description |-> "document.write can lead to DOM-based XSS vulnerabilities"],
      [pattern |-> Md5HashRegex, type |-> "Weak Cryptographic Hash", severity |-> "medium",
       description |-> "MD5 is a weak cryptographic hash function"],
      [pattern |-> RandomRegex, type |-> "Weak Random Number Generation", severity |-> "low",
       description |-> "Math.random is not cryptographically secure"]>>

generateFixSuggestion(code, issueType, language) ==
    CASE issueType = "Insecure HTTP Request" ->
             [confidence |-> 80,
              suggestedFix |-> "Use HTTPS instead of HTTP for secure communication",
              explanation |-> "HTTPS encrypts data in transit, preventing man-in-the-middle attacks"]
      [] issueType = "DOM-based XSS" ->
             [confidence |-> 90,
              suggestedFix |-> "Use safe DOM manipulation methods like textContent or createElement",
              explanation |-> "Safe DOM methods prevent script injection through HTML content"]
      [] issueType = "Weak Cryptographic Hash" ->
             [confidence |-> 85,
              suggestedFix |-> "Use strong hash functions like SHA-256 or bcrypt",
              explanation |-> "Modern hash functions provide better security against collision attacks"]
      [] issueType = "Weak Random Number Generation" ->
             [confidence |-> 75,
              suggestedFix |-> "Use crypto.randomBytes() for cryptographically secure random numbers",
              explanation |-> "Cryptographically secure random numbers are essential for security-sensitive operations"]
      [] OTHER ->
             [confidence |-> 60,
              suggestedFix |-> "Review and implement appropriate security measures",
              explanation |-> "This issue requires security review and appropriate mitigation"]

\* the findings of one line; the random part of the id is left out
analyzeLineWithAI(line, lineNumber, language) ==
    LET hits == SelectSeq(AiLinePatterns, LAMBDA p : Test(p.pattern, line))
    IN  [k \in DOMAIN hits |->
            LET aiAnalysis == generateFixSuggestion(line, hits[k].type, language)
            IN  Detected("ai-" \o ToString(lineNumber), hits[k].severity, hits[k].type,
                         lineNumber, hits[k].description, aiAnalysis.confidence,
                         Some(aiAnalysis.suggestedFix), Some(aiAnalysis.explanation))]

RECURSIVE AiIssuesFrom(_, _, _)
AiIssuesFrom(ls, i, language) ==
    IF i >= Len(ls) THEN <<>>
    ELSE analyzeLineWithAI(ls[i + 1], i + 1, language) \o AiIssuesFrom(ls, i + 1, language)

\* document.getText().split('\n') scanned line by line
performAIAnalysis(doc, language) == AiIssuesFrom(Split(Join(doc)), 0, language)

Unshift(list, e) == <<e>> \o list

\* Array.prototype.push of one element
Push(list, e) == Append(list, e)

\* the body of NextResponse.json and its status
Json(status, body) == [kind |-> "json", status |-> status, body |-> body]

\* POST of the SonarQube analyze route for a request body; code.split throws
\* when the body has no code
sonarPOST(code, language, upstream) ==
    IF upstream # "ok" \/ ~code.defined
    THEN Json(500, [error |-> "Analysis failed"])
    ELSE Json(200, [success |-> TRUE,
                    issues |-> enhanceWithSecurityAnalysis(code.value, <<>>, language)])

\* the requests of the model
MaxBatch == 2

BatText == <<"x = eval(a)", "document.write(h)">>

\* the lines a finding may name: those of the text, one before, one after
BatLines == 0..(Len(BatText) + 1)

BatFinding(k, line) ==
    [Finding(Some("javascript:S4784"), "CRITICAL", line) EXCEPT !.key = "f" \o ToString(k)]

BatFindings ==
    UNION {{[k \in 1..n |-> BatFinding(k, ls[k])] : ls \in [1..n -> BatLines]} : n \in 0..MaxBatch}

\* the issues of the SonarQube server as getFileIssues returns them: a
\* missing line and line 0 become line 1
getFileIssues(issues) ==
    [i \in DOMAIN issues |-> [issues[i] EXCEPT !.line = OrDefault(@, 1)]]

\* what the server may report for a file of BatText
ServerIssues ==
    UNION {{[k \in 1..n |-> BatFinding(k, ls[k])] :
               ls \in [1..n -> {Undefined} \cup {Some(l) : l \in BatLines}]} : n \in 0..MaxBatch}

BatBodies ==
    {[code |-> Some(Join(BatText)), language |-> "javascript"],
     [code |-> Some(Join(BatText)), language |-> "ruby"],
     [code |-> Some(""), language |-> "javascript"],
     [code |-> Undefined, language |-> "javascript"]}

BatRequests ==
    {[by |-> "route", code |-> b.code, language |-> b.language, vulnerabilities |-> vs] :
        b \in BatBodies, vs \in {Undefined} \cup {Some(fs) : fs \in BatFindings}}
    \cup {[by |-> "service", code |-> Some(Join(BatText)), language |-> "javascript",
           vulnerabilities |-> Some(getFileIssues(fs))] : fs \in ServerIssues}
    \cup {[by |-> "sonar", code |-> b.code, language |-> b.language,
           vulnerabilities |-> Undefined] : b \in BatBodies}

\* what the completion may answer for one finding
BatAnalyses ==
    {AiThrows, AiInvalidJson,
     AiAnalysis(Some(85), Some("use JSON.parse"), Some("why")),
     AiAnalysis(Undefined, Undefined, Undefined)}

AiItem(line, severity) ==
    [line |-> line, type |-> "SQL Injection", severity |-> severity,
     description |-> "SQL query built with user input", confidence |-> 90,
     suggestedFix |-> "Use parameterized queries"]

\* what it may answer for the file
BatFileAnalyses ==
    {AiThrows, AiInvalidJson, AiArray(<<>>), AiArray(<<AiItem(1, "critical")>>),
     AiArray(<<AiItem(10, "urgent")>>)}

BatServing(by) == batReq # None /\ batResp = None /\ batReq.by = by

\* the for...of of the route's POST throws when the body has no
\* vulnerabilities; the outer catch answers with status 500
BatRouteRejects ==
    /\ BatServing("route")
    /\ ~batReq.vulnerabilities.defined
    /\ batResp' = Json(500, [error |-> "AI analysis failed"])
    /\ UNCHANGED <<batReq, batIdx, batOut, batCall>>
    /\ UNCHANGED <<extVars, fixVars, enrVars, dashVars, sqVars, rtVars, cfgVars>>

\* enhanceVulnerabilityWithAI up to its await: without code, code.split
\* throws inside the try and the catch returns the finding with 70
BatRouteCall ==
    /\ BatServing("route")
    /\ batReq.vulnerabilities.defined
    /\ batCall = "none"
    /\ batIdx < Len(batReq.vulnerabilities.value)
    /\ IF batReq.code.defined
       THEN batCall' = "finding" /\ UNCHANGED <<batIdx, batOut>>
       ELSE /\ batOut' = Push(batOut, Enhanced(batReq.vulnerabilities.value[batIdx + 1],
                                                 70, Undefined, Undefined))
            /\ batIdx' = batIdx + 1
            /\ UNCHANGED batCall
    /\ UNCHANGED <<batReq, batResp>>
    /\ UNCHANGED <<extVars, fixVars, enrVars, dashVars, sqVars, rtVars, cfgVars>>

\* the completion settles and enhanceVulnerabilityWithAI returns
BatRouteAnswer(ai) ==
    /\ BatServing("route")
    /\ batCall = "finding"
    /\ batOut' = Push(batOut,
                     enhanceVulnerabilityWithAI(ai, batReq.vulnerabilities.value[batIdx + 1],
                                                batReq.code.value, batReq.language))
    /\ batIdx' = batIdx + 1
    /\ batCall' = "none"
    /\ UNCHANGED <<batReq, batResp>>
    /\ UNCHANGED <<extVars, fixVars, enrVars, dashVars, sqVars, rtVars, cfgVars>>

\* performAISecurityAnalysis up to its await
BatRouteFileCall ==
    /\ BatServing("route")
    /\ batReq.vulnerabilities.defined
    /\ batCall = "none"
    /\ batIdx = Len(batReq.vulnerabilities.value)
    /\ batCall' = "file"
    /\ UNCHANGED <<batReq, batIdx, batOut, batResp>>
    /\ UNCHANGED <<extVars, fixVars, enrVars, dashVars, sqVars, rtVars, cfgVars>>

\* the completion settles, performAISecurityAnalysis returns and POST responds
BatRouteRespond(ai) ==
    /\ BatServing("route")
    /\ batCall = "file"
    /\ batCall' = "none"
    /\ batResp' = Json(200, [success |-> TRUE,
                             vulnerabilities |-> batOut \o performAISecurityAnalysis(ai)])
    /\ UNCHANGED <<batReq, batIdx, batOut>>
    /\ UNCHANGED <<extVars, fixVars, enrVars, dashVars, sqVars, rtVars, cfgVars>>

\* the service never settles the call that is awaited
BatSilent ==
    /\ batReq # None
    /\ batResp = None
    /\ batCall \in {"finding", "file"}
    /\ batCall' = "lost"
    /\ UNCHANGED <<batReq, batIdx, batOut, batResp>>
    /\ UNCHANGED <<extVars, fixVars, enrVars, dashVars, sqVars, rtVars, cfgVars>>

\* one turn of the loop of analyzeVulnerabilities: an exception of
\* enhanceWithAI rejects the promise of analyzeVulnerabilities
BatServiceStep ==
    /\ BatServing("service")
    /\ batIdx < Len(batReq.vulnerabilities.value)
    /\ \E out \in {enhanceWithAI(Split(batReq.code.value), batReq.language,
                                 batReq.vulnerabilities.value[batIdx + 1])} :
          IF out.throws
          THEN batResp' = [kind |-> "rejected"] /\ UNCHANGED <<batIdx, batOut>>
          ELSE batOut' = Push(batOut, out) /\ batIdx' = batIdx + 1 /\ UNCHANGED batResp
    /\ UNCHANGED <<batReq, batCall>>
    /\ UNCHANGED <<extVars, fixVars, enrVars, dashVars, sqVars, rtVars, cfgVars>>

\* performAIAnalysis and the return of analyzeVulnerabilities
BatServiceReturn ==
    /\ BatServing("service")
    /\ batIdx = Len(batReq.vulnerabilities.value)
    /\ batResp' = [kind |-> "resolved",
                   vulnerabilities |-> batOut \o performAIAnalysis(Split(batReq.code.value),
                                                                   batReq.language)]
    /\ UNCHANGED <<batReq, batIdx, batOut, batCall>>
    /\ UNCHANGED <<extVars, fixVars, enrVars, dashVars, sqVars, rtVars, cfgVars>>

\* POST of the SonarQube analyze route
BatSonar(upstream) ==
    /\ BatServing("sonar")
    /\ batResp' = sonarPOST(batReq.code, batReq.language, upstream)
    /\ UNCHANGED <<batReq, batIdx, batOut, batCall>>
    /\ UNCHANGED <<extVars, fixVars, enrVars, dashVars, sqVars, rtVars, cfgVars>>

BatNext ==
    \/ BatRouteRejects
    \/ BatRouteCall
    \/ \E ai \in BatAnalyses : BatRouteAnswer(ai)
    \/ BatRouteFileCall
    \/ \E ai \in BatFileAnalyses : BatRouteRespond(ai)
    \/ BatSilent
    \/ BatServiceStep
    \/ BatServiceReturn
    \/ \E upstream \in {"ok", "ensureProject fails"} : BatSonar(upstream)

BatInit ==
    /\ ExtIdle
    /\ FixIdle
    /\ EnrIdle
    /\ DashIdle
    /\ SqIdle
    /\ RtIdle
    /\ CfgIdle
    /\ batReq \in BatRequests
    /\ batIdx = 0
    /\ batOut = <<>>
    /\ batCall = "none"
    /\ batResp = None

\* every step of a handler that is enabled is eventually taken, and a call
\* the service has not dropped is eventually settled
SpecAnalyze == BatInit /\ [][BatNext]_vars /\ WF_vars(BatNext)

-----------------------------------------------------------------------------
(* Claims about analysis requests *)

\* a batch of findings was submitted and the request has ended
BatEnded ==
    /\ batReq # None
    /\ batReq.by \in {"route", "service"}
    /\ batReq.vulnerabilities.defined
    /\ batResp # None

BatInput == batReq.vulnerabilities.value

\* the request ended with a list of findings
BatListed ==
    \/ batResp.kind = "resolved"
    \/ batResp.kind = "json" /\ batResp.status = 200

BatList ==
    IF batResp.kind = "resolved" THEN batResp.vulnerabilities
    ELSE batResp.body.vulnerabilities

\* C11: a batch of findings always ends with a list that holds an entry for
\* every input finding, also when the enrichment of one of them fails or its
\* line is outside the document.
C11_BatchNeverAborted ==
    BatEnded =>
        /\ BatListed
        /\ \A k \in DOMAIN BatInput : \E j \in DOMAIN BatList : BatList[j].id = BatInput[k].key

\* C12: the list that is returned holds the input findings in their input
\* order, however the analysis calls ended.
C12_InputOrderKept ==
    BatEnded /\ BatListed =>
        /\ Len(BatList) >= Len(BatInput)
        /\ \A k \in DOMAIN BatInput : BatList[k].id = BatInput[k].key

C12_Witness ==
    /\ BatEnded
    /\ batReq.by = "route"
    /\ BatListed
    /\ Len(BatInput) = 2
    /\ BatList[1].confidence = 70
    /\ BatList[2].confidence = 85
    /\ Len(BatList) = 3

\* C13: a request whose analysis call is never settled still ends, with a
\* list that holds every input finding.
C13_SilentCallStillAnswered ==
    (batCall = "lost") ~> (BatEnded /\ BatListed /\ Len(BatList) >= Len(BatInput))

-----------------------------------------------------------------------------
(* The dashboard's vulnerability list: applyAIFix, its timer and the       *)
(* findings the real-time scanner pushes                                   *)

MaxFound == 8

\* onVulnerabilityFound keeps prev.slice(0, 9) behind the new finding
KeptFindings == 9

\* two of the four severities handleFileChange draws from
DashSeverities == {"critical", "low"}

\* the status of an entry; an object without the property reads undefined
StatusOf(v) == IF "status" \in DOMAIN v THEN v.status ELSE "undefined"

\* { ...v, status }
WithStatus(v, status) ==
    [f \in DOMAIN v \cup {"status"} |-> IF f = "status" THEN status ELSE v[f]]

\* prev.map(v => v.id === vulnerabilityId ? { ...v, status } : v)
MapStatus(list, vulnerabilityId, status) ==
    [i \in DOMAIN list |->
        IF list[i].id = vulnerabilityId THEN WithStatus(list[i], status) ELSE list[i]]

\* the change of status this map makes to the first entry with the id
StatusChange(list, vulnerabilityId, status) ==
    IF \E i \in DOMAIN list : list[i].id = vulnerabilityId
    THEN [id |-> vulnerabilityId,
          from |-> StatusOf(list[Least({i \in DOMAIN list : list[i].id = vulnerabilityId})]),
          to |-> status]
    ELSE dashLast

\* the button 'AI Fix', rendered for the entries whose status is detected
applyAIFix(vulnerabilityId) ==
    /\ \E i \in DOMAIN dashList :
          dashList[i].id = vulnerabilityId /\ StatusOf(dashList[i]) = "detected"
    /\ dashList' = MapStatus(dashList, vulnerabilityId, "analyzing")
    /\ dashLast' = StatusChange(dashList, vulnerabilityId, "analyzing")
    /\ dashTimers' = dashTimers \cup {vulnerabilityId}
    /\ UNCHANGED dashFound
    /\ UNCHANGED <<extVars, fixVars, enrVars, batVars, sqVars, rtVars, cfgVars>>

\* the callback of the setTimeout of applyAIFix
DashTimer(vulnerabilityId) ==
    /\ vulnerabilityId \in dashTimers
    /\ dashList' = MapStatus(dashList, vulnerabilityId, "fixed")
    /\ dashLast' = StatusChange(dashList, vulnerabilityId, "fixed")
    /\ dashTimers' = dashTimers \ {vulnerabilityId}
    /\ UNCHANGED dashFound
    /\ UNCHANGED <<extVars, fixVars, enrVars, batVars, sqVars, rtVars, cfgVars>>

\* handleFileChange reports a finding: id, fileName, severity, type, line and
\* description, and onVulnerabilityFound puts it in front of the list
onVulnerabilityFound(severity) ==
    /\ dashFound < MaxFound
    /\ dashFound' = dashFound + 1
    /\ dashList' = <<[id |-> "vuln-" \o ToString(dashFound), severity |-> severity]>>
                   \o SubSeq(dashList, 1, Min2(KeptFindings, Len(dashList)))
    /\ UNCHANGED <<dashTimers, dashLast>>
    /\ UNCHANGED <<extVars, fixVars, enrVars, batVars, sqVars, rtVars, cfgVars>>

DashNext ==
    \/ \E id \in {dashList[i].id : i \in DOMAIN dashList} : applyAIFix(id)
    \/ \E id \in dashTimers : DashTimer(id)
    \/ \E severity \in DashSeverities : onVulnerabilityFound(severity)

DashInit == ExtIdle /\ FixIdle /\ EnrIdle /\ BatIdle /\ DashIdle /\ SqIdle /\ RtIdle /\ CfgIdle

SpecDash == DashInit /\ [][DashNext]_vars

-----------------------------------------------------------------------------
(* Claims about the dashboard *)

Statuses == {"detected", "analyzing", "fixed", "failed"}

\* C14: every finding of the dashboard's list has a status among detected,
\* analyzing, fixed and failed, and a status only changes from detected to
\* analyzing and from analyzing to fixed or failed.
C14_StatusLifecycle ==
    /\ \A i \in DOMAIN dashList : StatusOf(dashList[i]) \in Statuses
    /\ dashLast # None =>
          <<dashLast.from, dashLast.to>> \in
              {<<"detected", "analyzing">>, <<"analyzing", "fixed">>, <<"analyzing", "failed">>}

-----------------------------------------------------------------------------
(* Claims about the findings of analysis responses *)

Severity == {"critical", "high", "medium", "low"}

\* the findings a finished request returned for a text
ReturnedFindings ==
    IF batResp.kind = "resolved" THEN batResp.vulnerabilities
    ELSE IF batResp.kind = "json" /\ batResp.status = 200
    THEN (IF batReq.by = "sonar" THEN batResp.body.issues ELSE batResp.body.vulnerabilities)
    ELSE <<>>

\* C15: every finding an analysis returns for a text names a line of that
\* text and has a severity among critical, high, medium and low (the issues
\* of the SonarQube route keep the severity names of SonarQube and are held
\* to the line only).
C15_LineInTextSeverityKnown ==
    batReq # None /\ batResp # None /\ batReq.code.defined =>
        \A i \in DOMAIN ReturnedFindings :
            /\ ReturnedFindings[i].line \in 1..Len(Split(batReq.code.value))
            /\ batReq.by # "sonar" => ReturnedFindings[i].severity \in Severity

-----------------------------------------------------------------------------
(* Claims about the default confidence and the code context *)

\* the entry of the finding is one of the well-known ones
WellKnown(issue) ==
    Includes(issue.rule.value, "S4784") \/ Includes(issue.rule.value, "S5443")

\* 70, plus 15 for a well-known entry, minus 5 for a long line, at most 95
DefaultConfidence(wellKnown, length) ==
    Min2(70 + (IF wellKnown THEN 15 ELSE 0) - (IF length > 100 THEN 5 ELSE 0), 95)

\* the service computed the confidence of the finding of the request
ConfidenceComputed ==
    /\ EnrDone
    /\ enrReq.by = "service"
    /\ enrReq.finding.rule.defined

\* C16: the confidence calculateConfidence computes for a finding is 70, plus
\* 15 when its entry is well-known, minus 5 when the line has more than 100
\* characters, capped at 95.
C16_ConfidenceFormula ==
    ConfidenceComputed =>
        enrOut.confidence
          = DefaultConfidence(WellKnown(enrReq.finding),
                              Len(enrReq.text[enrReq.finding.line]))

\* the lines max(1, L - 3) .. min(N, L + 3) of a text of N lines
ContextWindow(textLines, lineNumber) ==
    Join(SubSeq(textLines, Max2(1, lineNumber - 3), Min2(Len(textLines), lineNumber + 3)))

\* C17: the code context built for a finding on line L of a text of N lines
\* consists of the lines max(1, L - 3) to min(N, L + 3), in the routes as in
\* the extension's AIService.
C17_ContextIsWindowOfThree ==
    enrContext # None /\ enrContext.defined =>
        enrContext.value = ContextWindow(enrReq.text, enrReq.finding.line)

-----------------------------------------------------------------------------
(* Claims about the input of the routes *)

KnownLanguages == {"javascript", "typescript", "python", "java", "c", "cpp"}

\* the body of the request lacks a field the route reads
MalformedBody ==
    \/ ~batReq.code.defined
    \/ batReq.by = "route" /\ ~batReq.vulnerabilities.defined

\* C18: a request of a route whose body is malformed or whose language is
\* not a known one is answered with an error, never with a success response.
C18_BadInputRejected ==
    /\ batReq # None
    /\ batReq.by \in {"route", "sonar"}
    /\ batResp # None
    /\ MalformedBody \/ batReq.language \notin KnownLanguages
    => batResp.status # 200

-----------------------------------------------------------------------------
(* Claims about the text a scan splits *)

LineFeeds(text) == Cardinality({i \in 0..(Len(text) - 1) : CharAt(text, i) = "\n"})

\* the finding of a scan record is on a line its entry matches
OnMatchingLine(r, f) ==
    LET split == Split(r.text)
    IN  /\ f.line \in 1..Len(split)
        /\ IF r.engine = "extension"
           THEN \E j \in DOMAIN getVulnerabilityPatterns(r.language) :
                    /\ getVulnerabilityPatterns(r.language)[j].type = f.type
                    /\ Test(getVulnerabilityPatterns(r.language)[j].regex, split[f.line])
           ELSE \E k \in 1..Len(LineIssues(split[f.line], f.line, r.language)) :
                    LineIssues(split[f.line], f.line, r.language)[k].rule = f.type

ScanNumbersLines(r) ==
    /\ r.text = "" => r.findings = <<>>
    /\ Len(Split(r.text)) = LineFeeds(r.text) + 1
    /\ LineFeeds(r.text) = 0 => \A k \in DOMAIN r.findings : r.findings[k].line = 1
    /\ \A k \in DOMAIN r.findings : OnMatchingLine(r, r.findings[k])

\* C19: a scan of the empty text ends with no finding and no error; a text
\* without a line feed is scanned as one line, numbered 1; and the line of
\* every finding is the 1-based index, in the split of the text on line
\* feeds, of a line its entry matches.
C19_LinesNumberedFromOne ==
    /\ \A r \in {refScan, reScan} \ {None} : ScanNumbersLines(r)
    /\ ScanDone /\ lines = <<"">> => vulnerabilities = <<>> /\ outcome = "clean"
    /\ ScanDone => \A k \in DOMAIN vulnerabilities : vulnerabilities[k].line \in 1..Len(lines)
    /\ sonarResp # None /\ sonarResp.status = 200 =>
           /\ sonarReq.code = "" => sonarResp.issues = <<>>
           /\ \A k \in DOMAIN sonarResp.issues :
                  sonarResp.issues[k].line \in 1..(LineFeeds(sonarReq.code) + 1)

\* the empty file was scanned by the extension and posted to the route
C19_Witness ==
    /\ ScanDone /\ lines = <<"">> /\ outcome = "clean"
    /\ sonarResp # None /\ sonarResp.status = 200 /\ sonarReq.code = ""

-----------------------------------------------------------------------------
(* Claims about a finding no fix is usable for *)

\* the answered request had no usable fix: its type has no case in the
\* switch and the rule-based path answered, or the object of the completion
\* carries no fixedCode or an empty one
NoUsableFix ==
    \/ fixSource = "rule" /\ fixReq.vulnerability.type \notin RuleTypes
    \/ /\ fixAi.kind = "object"
       /\ (~fixAi.fixedCode.defined \/ fixAi.fixedCode.value = "")

\* the text is the code of the request with one comment line added
KeepsLineAddsMarker(text) ==
    \E i \in 1..Len(Split(text)) :
        /\ SubSeq(Split(text)[i], 1, 2) = "//"
        /\ RemoveAt(Split(text), i) = Split(fixReq.code)

\* C20: when no usable fix exists for a finding, the fix result has
\* success = false and its text is the original code, target line kept, with
\* only a comment marker added; success = true is never returned then.
C20_NoFixIsFailure ==
    FixDone /\ fixResp.status = 200 /\ FixLineInRange /\ NoUsableFix
    => /\ fixResp.success = FALSE
       /\ fixResp.fixedCode.defined
       /\ KeepsLineAddsMarker(fixResp.fixedCode.value)

-----------------------------------------------------------------------------
(* SonarQubeService.analyzeFile of the extension *)

MockIssue(n, rule, severity, lineNumber, message) ==
    [key |-> "mock-" \o ToString(lineNumber) \o "-" \o ToString(n), rule |-> rule,
     severity |-> severity, component |-> "file", line |-> lineNumber,
     message |-> message, type |-> "VULNERABILITY", status |-> "OPEN"]

\* the issues getMockIssues pushes for one line
MockLineIssues(line, lineNumber) ==
    (IF Includes(line, "eval(") \/ Includes(line, "Function(")
     THEN <<MockIssue(1, "javascript:S4784", "CRITICAL", lineNumber,
                "Using eval or Function constructor can lead to code injection vulnerabilities")>>
     ELSE <<>>)
    \o (IF Includes(line, "innerHTML") \/ Includes(line, "outerHTML")
        THEN <<MockIssue(2, "javascript:S5443", "BLOCKER", lineNumber,
                   "Using innerHTML can expose the application to Cross-Site Scripting (XSS) attacks")>>
        ELSE <<>>)
    \o (IF Includes(line, "password") /\ Includes(line, "=")
        THEN <<MockIssue(3, "javascript:S2068", "CRITICAL", lineNumber,
                   "Hardcoded credentials detected")>>
        ELSE <<>>)
    \o (IF Includes(line, "SELECT") /\ Includes(line, "FROM") /\ Includes(line, "+")
        THEN <<MockIssue(4, "javascript:S2077", "CRITICAL", lineNumber,
                   "SQL query built from user input can lead to SQL injection")>>
        ELSE <<>>)

RECURSIVE MockIssuesFrom(_, _)
MockIssuesFrom(ls, i) ==
    IF i >= Len(ls) THEN <<>>
    ELSE MockLineIssues(ls[i + 1], LineNumber(i)) \o MockIssuesFrom(ls, i + 1)

getMockIssues(text) == MockIssuesFrom(Split(text), 0)

SqLinePool == {"x = eval(a)", "e.innerHTML = h", "password = 'k'", "y = 1"}

SqTexts == {""} \cup {Join(ls) : ls \in UNION {[1..n -> SqLinePool] : n \in 1..MaxLines}}

NetworkError == "Network Error"

SqReturned(issues) == [kind |-> "returned", issues |-> issues]

SqThrown(message) == [kind |-> "thrown", message |-> message]

\* the catch of analyzeFile wraps what the step threw
SqAnalysisFailed(message) == SqThrown("SonarQube analysis failed: " \o message)

SqStep(pcNow, call, pcNext, result) ==
    /\ sqPc = pcNow
    /\ sqCalls' = IF call = "" THEN sqCalls ELSE Append(sqCalls, call)
    /\ sqPc' = pcNext
    /\ sqResult' = result
    /\ UNCHANGED sqDoc
    /\ UNCHANGED <<extVars, fixVars, enrVars, batVars, dashVars, rtVars, cfgVars>>

\* analyzeFile is called for a document
SqAnalyzeFile(text) ==
    /\ sqPc \in {"idle", "done"}
    /\ sqDoc' = text
    /\ sqPc' = "ensureProject"
    /\ sqCalls' = <<>>
    /\ sqResult' = None
    /\ UNCHANGED <<extVars, fixVars, enrVars, batVars, dashVars, rtVars, cfgVars>>

\* ensureProject: the project search finds the project, finds none, or fails
SqProjectSearch(ending) ==
    CASE ending = "found" -> SqStep("ensureProject", "projects/search: found", "uploadFile", None)
      [] ending = "none" -> SqStep("ensureProject", "projects/search: none", "createProject", None)
      [] OTHER -> SqStep("ensureProject", "projects/search: fails", "done",
                      SqAnalysisFailed("Failed to ensure project exists: " \o NetworkError))

\* createProject, whose error the catch of ensureProject wraps again
SqCreateProject(ending) ==
    IF ending = "ok"
    THEN SqStep("createProject", "projects/create: ok", "uploadFile", None)
    ELSE SqStep("createProject", "projects/create: fails", "done",
             SqAnalysisFailed("Failed to ensure project exists: Failed to create project: "
                              \o NetworkError))

SqUploadFile(ending) ==
    IF ending = "ok"
    THEN SqStep("uploadFile", "sources/raw: ok", "triggerAnalysis", None)
    ELSE SqStep("uploadFile", "sources/raw: fails", "done",
             SqAnalysisFailed("Failed to upload file: " \o NetworkError))

\* triggerAnalysis only waits one second
SqTriggerAnalysis == SqStep("triggerAnalysis", "", "getFileIssues", None)

\* getFileIssues: the issue search answers with issues
SqIssueSearch(issues) ==
    SqStep("getFileIssues", "issues/search: ok", "done", SqReturned(getFileIssues(issues)))

\* getFileIssues: the issue search fails, or its answer carries no issues array
SqIssueSearchFails(ending) ==
    SqStep("getFileIssues", "issues/search: " \o ending, "done",
           SqReturned(getMockIssues(sqDoc)))

SqNext ==
    \/ \E text \in SqTexts : SqAnalyzeFile(text)
    \/ \E ending \in {"found", "none", "fails"} : SqProjectSearch(ending)
    \/ \E ending \in {"ok", "fails"} : SqCreateProject(ending)
    \/ \E ending \in {"ok", "fails"} : SqUploadFile(ending)
    \/ SqTriggerAnalysis
    \/ \E issues \in ServerIssues : SqIssueSearch(issues)
    \/ \E ending \in {"fails", "malformed"} : SqIssueSearchFails(ending)

SqInit == ExtIdle /\ FixIdle /\ EnrIdle /\ BatIdle /\ DashIdle /\ SqIdle /\ RtIdle /\ CfgIdle

SpecSonar == SqInit /\ [][SqNext]_vars

\* some REST call of the finished run failed
SqCallFailed ==
    \E k \in DOMAIN sqCalls :
        sqCalls[k] \in {"projects/search: fails", "projects/create: fails",
                        "sources/raw: fails", "issues/search: fails"}

\* C21: when a REST call made during analyzeFile fails (project search or
\* creation, upload, issue search), analyzeFile raises no error and returns
\* the mock findings computed from the text of the document.
C21_FailureFallsBackToMock ==
    sqPc = "done" /\ SqCallFailed => sqResult = SqReturned(getMockIssues(sqDoc))

-----------------------------------------------------------------------------
(* Claims about the text generateRuleBasedFix returns *)

\* the response is the result of generateRuleBasedFix for a line of the code
RuleFixed == FixDone /\ fixResp.status = 200 /\ fixSource = "rule" /\ FixLineInRange

\* out is ins with nothing but line l changed
OnlyLineChanged(ins, out, l) ==
    /\ Len(out) = Len(ins)
    /\ \A i \in 1..Len(ins) : i # l => out[i] = ins[i]

\* C22 as stated: for every type and every in-range line L the fixedCode of
\* generateRuleBasedFix has as many lines as the submitted code and every
\* line other than L is the submitted one at the same index.
C22_OnlyTargetLineChanges ==
    RuleFixed
    => OnlyLineChanged(Split(fixReq.code), Split(fixResp.fixedCode.value),
                       fixReq.vulnerability.line)

\* C22: for a type that has a case in the switch and an in-range line L, the
\* fixedCode has as many lines as the submitted code and differs from it at
\* line L only; for every other type the fixedCode is the submitted code with
\* one comment line inserted before line L, so it has one line more and the
\* lines from L on are moved down by one. The change reported names the
\* submitted line L as the original.
C22_TargetLineOrInsertedComment ==
    RuleFixed
    => LET ins == Split(fixReq.code)
           out == Split(fixResp.fixedCode.value)
           l == fixReq.vulnerability.line
       IN  /\ fixResp.changes[1].original = Some(ins[l])
           /\ IF fixReq.vulnerability.type \in RuleTypes
              THEN OnlyLineChanged(ins, out, l)
              ELSE /\ Len(out) = Len(ins) + 1
                   /\ SubSeq(out[l], 1, 8) = "// TODO:"
                   /\ RemoveAt(out, l) = ins

\* the rule-based transform rewrote the first line of a text of two lines
C22_Witness ==
    /\ RuleFixed
    /\ fixReq.vulnerability.type \in RuleTypes
    /\ Len(Split(fixReq.code)) = 2
    /\ fixReq.vulnerability.line = 1
    /\ Split(fixResp.fixedCode.value)[1] # Split(fixReq.code)[1]

-----------------------------------------------------------------------------
(* Claims about the language of the extension's fixes *)

JavaScriptOnly == {"process.env", "JSON.parse", "crypto.createHash"}

\* C23: the fix of a finding is written for the language of the scanned
\* document: in a Python document the fix of a Hardcoded Password finding
\* uses an os.environ lookup, and no fix contains process.env, JSON.parse or
\* crypto.createHash.
C23_FixInDocumentLanguage ==
    ScanDone /\ languageId = "python"
    => \A k \in DOMAIN vulnerabilities :
           /\ \A construct \in JavaScriptOnly :
                  ~Includes(vulnerabilities[k].fixed_code, construct)
           /\ vulnerabilities[k].type = "Hardcoded Password"
                  => Includes(vulnerabilities[k].fixed_code, "os.environ")

-----------------------------------------------------------------------------
(* RealTimeScanner: the interval of the auto-scan effect and the manual scan *)

MaxRtScans == 6

ManualFiles == 4

RtScan(by) == [id |-> rtStarted + 1, by |-> by]

\* handleFileChange past its guard, up to the first await: the scan is
\* started and setIsScanning(true) is called
RtBegin(by) ==
    /\ rtRunning' = rtRunning \cup {RtScan(by)}
    /\ rtStarted' = rtStarted + 1
    /\ rtIsScanning' = TRUE

\* A tick of the interval. Its callback calls the handleFileChange of the
\* render in which the effect ran, whose isScanning never changes. Ticks are
\* ten seconds apart and a scan lasts eleven waits of 200 ms, so no scan a
\* tick started is still running at the next tick. A tick whose
\* handleFileChange closed over isScanning = true returns at once and changes
\* nothing.
RtTick ==
    /\ rtTimerSees = "false"
    /\ rtStarted < MaxRtScans
    /\ \A scan \in rtRunning : scan.by # "timer"
    /\ RtBegin("timer")
    /\ UNCHANGED <<rtAutoScan, rtTimerSees, rtManualLeft>>
    /\ UNCHANGED <<extVars, fixVars, enrVars, batVars, dashVars, sqVars, cfgVars>>

\* the Auto-Scan button: the cleanup clears the interval and, when autoScan
\* is on again, the effect sets one with the handleFileChange of this render
RtToggleAutoScan ==
    /\ rtAutoScan' = ~rtAutoScan
    /\ rtTimerSees' = IF rtAutoScan THEN "none"
                      ELSE IF rtIsScanning THEN "true" ELSE "false"
    /\ UNCHANGED <<rtIsScanning, rtRunning, rtManualLeft, rtStarted>>
    /\ UNCHANGED <<extVars, fixVars, enrVars, batVars, dashVars, sqVars, cfgVars>>

\* the Start Manual Scan button, disabled while isScanning: the loop calls
\* handleFileChange for its first file
RtStartManualScan ==
    /\ ~rtIsScanning
    /\ rtManualLeft = 0
    /\ \A scan \in rtRunning : scan.by # "manual"
    /\ rtStarted < MaxRtScans
    /\ RtBegin("manual")
    /\ rtManualLeft' = ManualFiles - 1
    /\ UNCHANGED <<rtAutoScan, rtTimerSees>>
    /\ UNCHANGED <<extVars, fixVars, enrVars, batVars, dashVars, sqVars, cfgVars>>

\* the finally block of a scan the interval started
RtTimerScanEnds(scan) ==
    /\ scan \in rtRunning
    /\ scan.by = "timer"
    /\ rtRunning' = rtRunning \ {scan}
    /\ rtIsScanning' = FALSE
    /\ UNCHANGED <<rtAutoScan, rtTimerSees, rtManualLeft, rtStarted>>
    /\ UNCHANGED <<extVars, fixVars, enrVars, batVars, dashVars, sqVars, cfgVars>>

\* the finally block of a scan of the manual loop; the loop then calls the
\* handleFileChange it was created with, whose isScanning is false, for the
\* next file before any other task runs
RtManualScanEnds(scan) ==
    /\ scan \in rtRunning
    /\ scan.by = "manual"
    /\ IF rtManualLeft > 0 /\ rtStarted < MaxRtScans
       THEN /\ rtRunning' = (rtRunning \ {scan}) \cup {RtScan("manual")}
            /\ rtStarted' = rtStarted + 1
            /\ rtIsScanning' = TRUE
            /\ rtManualLeft' = rtManualLeft - 1
       ELSE /\ rtRunning' = rtRunning \ {scan}
            /\ rtIsScanning' = FALSE
            /\ rtManualLeft' = 0
            /\ UNCHANGED rtStarted
    /\ UNCHANGED <<rtAutoScan, rtTimerSees>>
    /\ UNCHANGED <<extVars, fixVars, enrVars, batVars, dashVars, sqVars, cfgVars>>

RtNext ==
    \/ RtTick
    \/ RtToggleAutoScan
    \/ RtStartManualScan
    \/ \E scan \in rtRunning : RtTimerScanEnds(scan)
    \/ \E scan \in rtRunning : RtManualScanEnds(scan)

RtInit == ExtIdle /\ FixIdle /\ EnrIdle /\ BatIdle /\ DashIdle /\ SqIdle /\ RtIdle /\ CfgIdle

SpecScanner == RtInit /\ [][RtNext]_vars

\* C24: at most one scan is in progress at any time, and isScanning is true
\* exactly while some scan is between its start and its finally block.
C24_OneScanAtATime ==
    /\ Cardinality(rtRunning) <= 1
    /\ rtIsScanning <=> rtRunning # {}

-----------------------------------------------------------------------------
(* ConfigManager: the configuration, its storage and its listeners *)

MaxSubs == 2

MaxCfgOps == 2

JsonNull == [null |-> TRUE]

NotJson == [ok |-> FALSE]

Parsed(value) == [ok |-> TRUE, value |-> value]

\* JSON.parse on the texts the model imports; a temperature is read in tenths
JsonParse(text) ==
    CASE text = "null" -> Parsed(JsonNull)
      [] text = "{\"sonarQube\":{\"timeout\":60000}}" ->
             Parsed([sonarQube |-> [timeout |-> 60000]])
      [] text = "{\"sonarQube\":{\"timeout\":500}}" ->
             Parsed([sonarQube |-> [timeout |-> 500]])
      [] text = "{\"sonarQube\":{\"timeout\":0}}" ->
             Parsed([sonarQube |-> [timeout |-> 0]])
      [] text = "{\"sonarQube\":{\"url\":\"sonar\"}}" ->
             Parsed([sonarQube |-> [url |-> "sonar"]])
      [] text = "{\"ai\":{\"maxTokens\":0}}" ->
             Parsed([ai |-> [maxTokens |-> 0]])
      [] text = "{\"ai\":{\"maxTokens\":9000,\"temperature\":3}}" ->
             Parsed([ai |-> [maxTokens |-> 9000, temperature |-> 30]])
      [] text = "{\"ai\":{\"confidenceThreshold\":50}}" ->
             Parsed([ai |-> [confidenceThreshold |-> 50]])
      [] OTHER -> NotJson

ImportTexts ==
    {"{", "null",
     "{\"sonarQube\":{\"timeout\":60000}}",
     "{\"sonarQube\":{\"timeout\":500}}",
     "{\"sonarQube\":{\"timeout\":0}}",
     "{\"sonarQube\":{\"url\":\"sonar\"}}",
     "{\"ai\":{\"maxTokens\":0}}",
     "{\"ai\":{\"maxTokens\":9000,\"temperature\":3}}",
     "{\"ai\":{\"confidenceThreshold\":50}}"}

\* config.section, an object without fields when the section is missing
SectionOf(config, section) ==
    IF section \in DOMAIN config THEN config[section] ELSE <<>>

\* section.field && ... for a number and for a string
TruthyNumber(section, field) == field \in DOMAIN section /\ section[field] # 0

TruthyString(section, field) == field \in DOMAIN section /\ section[field] # ""

\* new URL(url) does not throw: the text has a scheme
isValidUrl(url) == Includes(url, ":")

\* validateConfig for the sections of the model; reading a section of null throws
validateConfig(config) ==
    IF config = JsonNull THEN Thrown
    ELSE LET sonarQube == SectionOf(config, "sonarQube")
             ai == SectionOf(config, "ai")
             Errors(errors) ==
                 [throws |-> FALSE, isValid |-> Len(errors) = 0, errors |-> errors]
         IN  Errors(
                 (IF TruthyString(sonarQube, "url") /\ ~isValidUrl(sonarQube.url)
                  THEN <<"SonarQube URL is not valid">> ELSE <<>>)
                 \o (IF TruthyNumber(sonarQube, "timeout")
                        /\ (sonarQube.timeout < 1000 \/ sonarQube.timeout > 300000)
                     THEN <<"SonarQube timeout must be between 1000ms and 300000ms">>
                     ELSE <<>>)
                 \o (IF TruthyNumber(ai, "confidenceThreshold")
                        /\ (ai.confidenceThreshold < 0 \/ ai.confidenceThreshold > 100)
                     THEN <<"AI confidence threshold must be between 0 and 100">>
                     ELSE <<>>)
                 \o (IF TruthyNumber(ai, "maxTokens")
                        /\ (ai.maxTokens < 100 \/ ai.maxTokens > 8000)
                     THEN <<"AI max tokens must be between 100 and 8000">> ELSE <<>>)
                 \o (IF TruthyNumber(ai, "temperature")
                        /\ (ai.temperature < 0 \/ ai.temperature > 20)
                     THEN <<"AI temperature must be between 0 and 2">> ELSE <<>>))

\* { ...base[key], ...value }
Spread(base, value) ==
    [field \in DOMAIN base \cup DOMAIN value |->
         IF field \in DOMAIN value THEN value[field] ELSE base[field]]

\* mergeConfig for updates whose values are objects
mergeConfig(base, updates) ==
    [key \in DOMAIN base \cup DOMAIN updates |->
         IF key \in DOMAIN updates
         THEN Spread(SectionOf(base, key), updates[key])
         ELSE base[key]]

RECURSIVE JoinWith(_, _)
JoinWith(ls, sep) ==
    IF Len(ls) = 0 THEN ""
    ELSE IF Len(ls) = 1 THEN ls[1]
    ELSE ls[1] \o sep \o JoinWith(Tail(ls), sep)

ImportFailure(error) == [success |-> FALSE, error |-> error]

ImportSuccess(imported) == [success |-> TRUE, imported |-> imported]

importConfigUnchecked(configJson) ==
    IF JsonParse(configJson).ok /\ JsonParse(configJson).value # JsonNull
    THEN ImportSuccess(JsonParse(configJson).value)
    ELSE ImportFailure("Invalid JSON format")

\* importConfig up to the call of updateConfig
importConfig(configJson) ==
    LET parsed == JsonParse(configJson)
        Validated(validation) ==
            IF validation.throws THEN ImportFailure("Invalid JSON format")
            ELSE IF ~validation.isValid
            THEN ImportFailure(JoinWith(validation.errors, ", "))
            ELSE ImportSuccess(parsed.value)
    IN  IF ~parsed.ok THEN ImportFailure("Invalid JSON format")
        ELSE Validated(validateConfig(parsed.value))

\* the listener functions: one only reads the configuration, one calls its
\* own unsubscribe function when it is notified, one subscribes the first
ListenerFns == {"reader", "once", "adder"}

Subscription(fn) == [fn |-> fn, active |-> TRUE]

IndexOf(ls, x) ==
    IF \E i \in DOMAIN ls : ls[i] = x THEN Least({i \in DOMAIN ls : ls[i] = x}) - 1 ELSE -1

\* the function subscribe returns, for the listener it closed over
unsubscribe(listeners, listener) ==
    LET index == IndexOf(listeners, listener)
    IN  IF index > -1 THEN RemoveAt(listeners, index + 1) ELSE listeners

\* what the listener fn does when it is called
Called(st, fn) ==
    LET noted == [st EXCEPT !.notified = Append(@, fn)]
    IN  CASE fn = "once" ->
                 [noted EXCEPT !.listeners = unsubscribe(@, "once"),
                               !.subs = [i \in DOMAIN @ |->
                                            IF @[i].fn = "once"
                                            THEN [@[i] EXCEPT !.active = FALSE]
                                            ELSE @[i]]]
          [] fn = "adder" /\ Len(st.subs) < MaxSubs ->
                 [noted EXCEPT !.listeners = Append(@, "reader"),
                               !.subs = Append(@, Subscription("reader"))]
          [] OTHER -> noted

\* this.listeners.forEach from index k (0-based): the length is read once,
\* an index the array no longer has is passed over
RECURSIVE ForEachFrom(_, _, _)
ForEachFrom(st, k, len) ==
    IF k >= len THEN st
    ELSE IF k >= Len(st.listeners) THEN ForEachFrom(st, k + 1, len)
    ELSE ForEachFrom(Called(st, st.listeners[k + 1]), k + 1, len)

notifyListeners ==
    ForEachFrom([listeners |-> cfgListeners, subs |-> cfgSubs, notified |-> <<>>],
                0, Len(cfgListeners))

\* saveConfig and notifyListeners after this.config is assigned
CfgAssigned(config, shared, last) ==
    /\ cfgConfig' = config
    /\ cfgShared' = shared
    /\ cfgStorage' = config
    /\ \E st \in {notifyListeners} :
           /\ cfgListeners' = st.listeners
           /\ cfgSubs' = st.subs
           /\ cfgLast' = [op |-> last.op, text |-> last.text, success |-> TRUE, error |-> "",
                          before |-> cfgConfig, atStart |-> cfgListeners,
                          notified |-> st.notified]
    /\ cfgOps' = cfgOps + 1
    /\ UNCHANGED cfgDefault
    /\ UNCHANGED <<extVars, fixVars, enrVars, batVars, dashVars, sqVars, rtVars>>

CfgUpdates == {[ai |-> [maxTokens |-> 4000]]}

updateConfig(updates) ==
    /\ cfgOps < MaxCfgOps
    /\ CfgAssigned(mergeConfig(cfgConfig, updates), cfgShared \ DOMAIN updates,
                   [op |-> "updateConfig", text |-> ""])

resetConfig ==
    /\ cfgOps < MaxCfgOps
    /\ CfgAssigned(cfgDefault, DOMAIN cfgDefault, [op |-> "resetConfig", text |-> ""])

CfgImport(configJson) ==
    /\ cfgOps < MaxCfgOps
    /\ \E r \in {importConfig(configJson)} :
           IF r.success
           THEN CfgAssigned(mergeConfig(cfgConfig, r.imported),
                            cfgShared \ DOMAIN r.imported,
                            [op |-> "importConfig", text |-> configJson])
           ELSE /\ cfgLast' = [op |-> "importConfig", text |-> configJson,
                               success |-> FALSE, error |-> r.error,
                               before |-> cfgConfig, atStart |-> cfgListeners,
                               notified |-> <<>>]
                /\ cfgOps' = cfgOps + 1
                /\ UNCHANGED <<cfgConfig, cfgDefault, cfgShared, cfgStorage,
                               cfgListeners, cfgSubs>>
                /\ UNCHANGED <<extVars, fixVars, enrVars, batVars, dashVars, sqVars, rtVars>>

\* a caller writes a field of a section of the object getConfig returned:
\* the copy is shallow, so the section is the manager's own object, and
\* defaultConfig's too while the manager shares it
CfgWrite(section, field, value) ==
    /\ cfgOps < MaxCfgOps
    /\ cfgOps' = cfgOps + 1
    /\ cfgConfig' = [cfgConfig EXCEPT ![section][field] = value]
    /\ cfgDefault' = IF section \in cfgShared
                     THEN [cfgDefault EXCEPT ![section][field] = value]
                     ELSE cfgDefault
    /\ cfgLast' = [op |-> "write", text |-> "", success |-> TRUE, error |-> "",
                   before |-> cfgConfig, atStart |-> cfgListeners, notified |-> <<>>]
    /\ UNCHANGED <<cfgShared, cfgStorage, cfgListeners, cfgSubs>>
    /\ UNCHANGED <<extVars, fixVars, enrVars, batVars, dashVars, sqVars, rtVars>>

\* subscribe; the listener that unsubscribes itself is subscribed once
subscribe(listener) ==
    /\ Len(cfgSubs) < MaxSubs
    /\ listener = "once" => \A i \in DOMAIN cfgSubs : cfgSubs[i].fn # "once"
    /\ cfgListeners' = Append(cfgListeners, listener)
    /\ cfgSubs' = Append(cfgSubs, Subscription(listener))
    /\ UNCHANGED <<cfgConfig, cfgDefault, cfgShared, cfgStorage, cfgLast, cfgOps>>
    /\ UNCHANGED <<extVars, fixVars, enrVars, batVars, dashVars, sqVars, rtVars>>

\* a call of the function the i-th subscribe returned, the first or a later one
CfgUnsubscribe(i) ==
    /\ i \in DOMAIN cfgSubs
    /\ cfgListeners' = unsubscribe(cfgListeners, cfgSubs[i].fn)
    /\ cfgSubs' = [cfgSubs EXCEPT ![i].active = FALSE]
    /\ UNCHANGED <<cfgConfig, cfgDefault, cfgShared, cfgStorage, cfgLast, cfgOps>>
    /\ UNCHANGED <<extVars, fixVars, enrVars, batVars, dashVars, sqVars, rtVars>>

CfgNext ==
    \/ \E updates \in CfgUpdates : updateConfig(updates)
    \/ resetConfig
    \/ \E configJson \in ImportTexts : CfgImport(configJson)
    \/ CfgWrite("sonarQube", "timeout", 60000)
    \/ CfgWrite("ai", "maxTokens", 4000)
    \/ \E listener \in ListenerFns : subscribe(listener)
    \/ \E i \in 1..MaxSubs : CfgUnsubscribe(i)

CfgInit ==
    ExtIdle /\ FixIdle /\ EnrIdle /\ BatIdle /\ DashIdle /\ SqIdle /\ RtIdle /\ CfgIdle

SpecConfig == CfgInit /\ [][CfgNext]_vars

-----------------------------------------------------------------------------
(* Claims about ConfigManager *)

Count(ls, x) == Cardinality({i \in DOMAIN ls : ls[i] = x})

\* the last call assigned this.config and notified the listeners
CfgNotifying == cfgLast.op \in {"updateConfig", "resetConfig", "importConfig"} /\ cfgLast.success

\* C25: an updateConfig or resetConfig call invokes every listener that is
\* subscribed when the call starts exactly once for each of its
\* subscriptions, whatever the listeners do while they are notified.
C25_EveryListenerNotifiedOnce ==
    CfgNotifying
    => \A fn \in ListenerFns : Count(cfgLast.notified, fn) = Count(cfgLast.atStart, fn)

ActiveSubs(fn) == {i \in DOMAIN cfgSubs : cfgSubs[i].fn = fn /\ cfgSubs[i].active}

\* C26: an unsubscribe function removes the subscription that created it and
\* no other, however often it is called: the listeners held are those of the
\* subscriptions whose own unsubscribe function was never called.
C26_UnsubscribeOwnOnly ==
    \A fn \in ListenerFns : Count(cfgListeners, fn) = Cardinality(ActiveSubs(fn))

\* C27: writing to the object getConfig returned changes neither the
\* manager's configuration nor defaultConfig, and resetConfig restores the
\* original default values.
C27_ConfigIsolated ==
    /\ cfgDefault = defaultConfig
    /\ cfgLast.op = "write" => cfgConfig = cfgLast.before
    /\ cfgLast.op = "resetConfig" => cfgConfig = defaultConfig

\* the text is not JSON, or validateConfig throws on or rejects its content
Rejectable(configJson) ==
    \/ ~JsonParse(configJson).ok
    \/ validateConfig(JsonParse(configJson).value).throws
    \/ ~validateConfig(JsonParse(configJson).value).isValid

ImportStep == cfgLast'.op = "importConfig" /\ cfgOps' = cfgOps + 1

\* C28: an importConfig call given text that is not valid JSON, or whose
\* content fails validateConfig, returns success = false with an error and
\* leaves the configuration, the storage and the listeners as they were,
\* without notifying a listener.
C28_RejectedImportChangesNothing ==
    [][ImportStep /\ Rejectable(cfgLast'.text)
       => /\ ~cfgLast'.success
          /\ cfgLast'.error # ""
          /\ cfgLast'.notified = <<>>
          /\ UNCHANGED <<cfgConfig, cfgDefault, cfgStorage, cfgListeners, cfgSubs>>]_vars

\* a rejected import arrived at a manager whose configuration was changed
\* and stored and that has a listener
C28_Witness ==
    /\ cfgLast.op = "importConfig"
    /\ Rejectable(cfgLast.text)
    /\ cfgConfig # defaultConfig
    /\ cfgStorage = cfgConfig
    /\ cfgListeners # <<>>

InRanges(config) ==
    /\ config.sonarQube.timeout >= 1000 /\ config.sonarQube.timeout <= 300000
    /\ config.ai.confidenceThreshold >= 0 /\ config.ai.confidenceThreshold <= 100
    /\ config.ai.maxTokens >= 100 /\ config.ai.maxTokens <= 8000
    /\ config.ai.temperature >= 0 /\ config.ai.temperature <= 20

\* C29: the configuration held and stored after imports is within the ranges
\* validateConfig announces; an import carrying a value outside them, the
\* value 0 included, is rejected.
C29_StoredConfigInRanges ==
    /\ InRanges(cfgConfig)
    /\ cfgStorage # None => InRanges(cfgStorage)

-----------------------------------------------------------------------------
(* Claims about the confirmation of the extension's edits *)

\* C30: with autoFix off, a step of the command changes the document only
\* when the user chooses Apply All in the second dialog, which opens only
\* when the user chooses Fix All in the first; the scan itself, every other
\* choice and a dismissed dialog leave the document as it is.
C30_NoEditWithoutConfirmation ==
    [][~autoFix
       => /\ ScanAndFix => document' = document /\ pc' \in {"idle", "confirmFix"}
          /\ ChooseFix("Fix All") => document' = document /\ pc' = "confirmApply"
          /\ \A choice \in FixChoices \ {"Fix All"} :
                 ChooseFix(choice) => document' = document /\ pc' = "idle"
          /\ \A choice \in ApplyChoices \ {"Apply All"} :
                 ChooseApply(choice) => document' = document /\ pc' = "idle"
          /\ pc' = "confirmApply" /\ pc # "confirmApply" => ChooseFix("Fix All")
          /\ document' # document => UserEdit \/ ChooseApply("Apply All")]_vars

\* with autoFix off, fixes were applied and changed the document
C30_Witness ==
    /\ ~autoFix
    /\ outcome = "applied"
    /\ edits # <<>>
    /\ document # docAtEdit

=============================================================================
